---- MODULE Spec2Model ----
(***************************************************************************)
(* Model of the postinstall probe of the package-manager debug harness:    *)
(* the global-mode detector (utils/is-global-mode), the installation-path  *)
(* resolver (utils/get-installation-path), the installed-file finder       *)
(* (utils/find-installed-executables) and the postinstall script's main    *)
(* routine.  Strings are TLA+ strings; paths, user agents and JSON texts   *)
(* are handled character by character, as the code's library calls do.     *)
(***************************************************************************)
EXTENDS Integers, Sequences, FiniteSets, TLC

VARIABLES
  pc,            \* position of the modelled routine
  env,           \* process.env: a function from the names that are set to their values
  platform,      \* process.platform
  cwd,           \* process.cwd()
  isGlobalMode,  \* the constant exported by utils/is-global-mode
  loadError,     \* TRUE when evaluating utils/is-global-mode threw
  fs,            \* the file system: regular files with their text, directories with their entries
  npmBin,        \* the `npm bin` child process of getInstallationPath, once it has run
  spawned,       \* the command lines of the child processes spawned so far
  args,          \* the arguments of the call under study
  ret,           \* the outcome of the routine under study
  isPnPEnabled,  \* the constant exported by utils/is-pnp-enabled
  binName,       \* the postinstall script's binName
  binCommandResult, \* what the callback of execBinCmd was handed
  expectedValues,   \* the parsed DEBUG_EXPECTED_VARS_JSON
  emitted,       \* the debug records serialized so far
  written,       \* the file writes made so far
  log,           \* the lines logged so far
  thrown,        \* the message of the exception in flight, "" when there is none
  exitCode,      \* process.exitCode, 0 while it is not set
  watch,         \* the file watcher and the install operation of watchNpmExecutables
  callbacks      \* how often the callback handed to execBinCmd was invoked

mainVars ==
  <<isPnPEnabled, binName, binCommandResult, expectedValues, emitted, written, log, thrown,
    exitCode, callbacks>>

vars ==
  <<pc, env, platform, cwd, isGlobalMode, loadError, fs, npmBin, spawned, args, ret, mainVars,
    watch>>

(***************************************************************************)
(* Bounds of the model.                                                    *)
(***************************************************************************)
\* longest "original" argument vector enumerated for npm_config_argv
MaxArgs == 3

(***************************************************************************)
(* String helpers (String.prototype methods used by the code).             *)
(***************************************************************************)
CharAt(s, i) == IF 1 <= i /\ i <= Len(s) THEN SubSeq(s, i, i) ELSE ""

\* s.substring(i - 1, j): the characters i..j of s that exist
Slice(s, i, j) ==
  LET from == IF i < 1 THEN 1 ELSE i
      to == IF j > Len(s) THEN Len(s) ELSE j
  IN IF from > to THEN "" ELSE SubSeq(s, from, to)

\* s.startsWith(p)
StartsWith(s, p) == Slice(s, 1, Len(p)) = p

SetMin(S) == CHOOSE x \in S : \A y \in S : x <= y
SetMax(S) == CHOOSE x \in S : \A y \in S : y <= x

\* the members of a finite set of numbers, ascending
SortedSeq(S) ==
  [k \in 1..Cardinality(S) |-> CHOOSE x \in S : Cardinality({y \in S : y < x}) = k - 1]

\* first position >= i at which sub occurs in s, 0 when there is none
\* (s.indexOf(sub, i - 1) + 1)
FindFrom(s, sub, i) ==
  LET hits == {k \in i..(Len(s) - Len(sub) + 1) : Slice(s, k, k + Len(sub) - 1) = sub}
  IN IF hits = {} THEN 0 ELSE SetMin(hits)

\* last position <= i at which sub occurs in s, 0 when there is none
\* (s.lastIndexOf(sub, i - 1) + 1)
FindBack(s, sub, i) ==
  LET hits == {k \in 1..i : k + Len(sub) - 1 <= Len(s) /\ Slice(s, k, k + Len(sub) - 1) = sub}
  IN IF hits = {} THEN 0 ELSE SetMax(hits)

\* s.split(sep) for a one-character separator
Split(s, sep) ==
  LET cuts == SortedSeq({i \in 1..Len(s) : CharAt(s, i) = sep})
      n == Len(cuts)
      from(k) == IF k = 1 THEN 1 ELSE cuts[k - 1] + 1
      to(k) == IF k = n + 1 THEN Len(s) ELSE cuts[k] - 1
  IN [k \in 1..(n + 1) |-> Slice(s, from(k), to(k))]

\* items.join(sep)
RECURSIVE Join(_, _)
Join(items, sep) ==
  IF items = <<>> THEN ""
  ELSE IF Len(items) = 1 THEN items[1]
  ELSE items[1] \o sep \o Join(Tail(items), sep)

\* the white space of the texts of the model
IsSpace(c) == c = " " \/ c = "\n"

\* s.trim()
Trim(s) ==
  LET inked == {i \in 1..Len(s) : ~IsSpace(CharAt(s, i))}
  IN IF inked = {} THEN "" ELSE Slice(s, SetMin(inked), SetMax(inked))

(***************************************************************************)
(* process.env                                                             *)
(***************************************************************************)
\* marks, in the enumeration of environments only, a variable that is not set
NoVar == "<unset>"

\* the environment in which every name of choice is set unless it is NoVar
MkEnv(choice) ==
  [k \in {n \in DOMAIN choice : choice[n] # NoVar} |-> choice[k]]

IsSet(e, name) == name \in DOMAIN e

\* env[name] === value
EnvEquals(e, name, value) == IsSet(e, name) /\ e[name] = value

\* the truthiness test `if (env[name])`: set and not the empty string
EnvTruthy(e, name) == IsSet(e, name) /\ e[name] # ""

(***************************************************************************)
(* JavaScript values, as JSON.parse builds them.                           *)
(***************************************************************************)
JSUndefined == [t |-> "undefined"]
JSNull == [t |-> "null"]
JSBool(b) == [t |-> "boolean", v |-> b]
JSNumber(n) == [t |-> "number", v |-> n]
JSString(s) == [t |-> "string", v |-> s]
JSArray(items) == [t |-> "array", items |-> items]
JSObject(keys, vals) == [t |-> "object", keys |-> keys, vals |-> vals]

IsDigit(c) == c \in {"0", "1", "2", "3", "4", "5", "6", "7", "8", "9"}

DigitValue(c) ==
  CASE c = "0" -> 0 [] c = "1" -> 1 [] c = "2" -> 2 [] c = "3" -> 3 [] c = "4" -> 4
    [] c = "5" -> 5 [] c = "6" -> 6 [] c = "7" -> 7 [] c = "8" -> 8 [] OTHER -> 9

ParseFail == [ok |-> FALSE, val |-> JSUndefined, next |-> 0]
ParseOk(v, n) == [ok |-> TRUE, val |-> v, next |-> n]

\* the first position >= i of s that holds no white space (Len(s) + 1 at the end)
SkipWs(s, i) == SetMin({k \in i..(Len(s) + 1) : ~IsSpace(CharAt(s, k))} \cup {Len(s) + 1})

\* the characters a backslash may be followed by in the strings of the model
\* (the escapes \b \f \r \t \/ and \u are outside the texts it enumerates and
\* are rejected)
IsEscapable(c) == c = "\"" \/ c = "\\" \/ c = "n"

\* the position of the quote closing a string opened before i, 0 when the
\* string is unterminated, holds a line break or holds an escape that is not
\* modelled
RECURSIVE ClosingQuote(_, _)
ClosingQuote(s, i) ==
  IF i > Len(s) \/ CharAt(s, i) = "\n" THEN 0
  ELSE IF CharAt(s, i) = "\"" THEN i
  ELSE IF CharAt(s, i) = "\\"
    THEN IF IsEscapable(CharAt(s, i + 1)) THEN ClosingQuote(s, i + 2) ELSE 0
  ELSE ClosingQuote(s, i + 1)

\* the string a string literal's characters stand for
RECURSIVE Unescape(_)
Unescape(raw) ==
  IF raw = "" THEN ""
  ELSE IF CharAt(raw, 1) = "\\"
    THEN (IF CharAt(raw, 2) = "n" THEN "\n" ELSE CharAt(raw, 2))
           \o Unescape(Slice(raw, 3, Len(raw)))
  ELSE CharAt(raw, 1) \o Unescape(Slice(raw, 2, Len(raw)))

\* the first position >= i of s that holds no digit
DigitsEnd(s, i) == SetMin({k \in i..(Len(s) + 1) : ~IsDigit(CharAt(s, k))} \cup {Len(s) + 1})

RECURSIVE DigitsValue(_, _, _)
DigitsValue(s, i, j) ==
  IF j < i THEN 0 ELSE DigitsValue(s, i, j - 1) * 10 + DigitValue(CharAt(s, j))

RECURSIVE ParseValue(_, _)
RECURSIVE ParseElements(_, _, _)
RECURSIVE ParseMembers(_, _, _, _)

\* the JSON value that starts at position i of s (i is past any white space)
ParseValue(s, i) ==
  LET c == CharAt(s, i) IN
  IF c = "\"" THEN
    LET j == ClosingQuote(s, i + 1) IN
    IF j = 0 THEN ParseFail ELSE ParseOk(JSString(Unescape(Slice(s, i + 1, j - 1))), j + 1)
  ELSE IF IsDigit(c) THEN
    LET j == DigitsEnd(s, i) IN
    \* a number has no leading zero
    IF c = "0" /\ j > i + 1 THEN ParseFail
    ELSE ParseOk(JSNumber(DigitsValue(s, i, j - 1)), j)
  ELSE IF Slice(s, i, i + 3) = "null" THEN ParseOk(JSNull, i + 4)
  ELSE IF Slice(s, i, i + 3) = "true" THEN ParseOk(JSBool(TRUE), i + 4)
  ELSE IF Slice(s, i, i + 4) = "false" THEN ParseOk(JSBool(FALSE), i + 5)
  ELSE IF c = "[" THEN
    LET k == SkipWs(s, i + 1) IN
    IF CharAt(s, k) = "]" THEN ParseOk(JSArray(<<>>), k + 1)
    ELSE ParseElements(s, k, <<>>)
  ELSE IF c = "{" THEN
    LET k == SkipWs(s, i + 1) IN
    IF CharAt(s, k) = "}" THEN ParseOk(JSObject(<<>>, <<>>), k + 1)
    ELSE ParseMembers(s, k, <<>>, <<>>)
  ELSE ParseFail

\* the elements of an array from position i on, after the elements in acc
ParseElements(s, i, acc) ==
  LET r == ParseValue(s, i) IN
  IF ~r.ok THEN ParseFail
  ELSE LET k == SkipWs(s, r.next) IN
       IF CharAt(s, k) = "," THEN ParseElements(s, SkipWs(s, k + 1), Append(acc, r.val))
       ELSE IF CharAt(s, k) = "]" THEN ParseOk(JSArray(Append(acc, r.val)), k + 1)
       ELSE ParseFail

\* the members of an object from position i on, after those in keys/vals
ParseMembers(s, i, keys, vals) ==
  IF CharAt(s, i) # "\"" THEN ParseFail
  ELSE
    LET j == ClosingQuote(s, i + 1) IN
    IF j = 0 THEN ParseFail
    ELSE
      LET c == SkipWs(s, j + 1) IN
      IF CharAt(s, c) # ":" THEN ParseFail
      ELSE
        LET r == ParseValue(s, SkipWs(s, c + 1)) IN
        IF ~r.ok THEN ParseFail
        ELSE
          LET k == SkipWs(s, r.next)
              keys2 == Append(keys, Unescape(Slice(s, i + 1, j - 1)))
              vals2 == Append(vals, r.val)
          IN IF CharAt(s, k) = "," THEN ParseMembers(s, SkipWs(s, k + 1), keys2, vals2)
             ELSE IF CharAt(s, k) = "}" THEN ParseOk(JSObject(keys2, vals2), k + 1)
             ELSE ParseFail

\* the outcome of JSON.parse(text) when the value read at its start is r: the
\* value when nothing but white space follows it
ParsedText(text, r) ==
  IF r.ok /\ SkipWs(text, r.next) = Len(text) + 1
    THEN [threw |-> FALSE, value |-> r.val]
    ELSE [threw |-> TRUE, value |-> JSUndefined]

\* JSON.parse(text): the value, or threw = TRUE for the SyntaxError
JSON_parse(text) == ParsedText(text, ParseValue(text, SkipWs(text, 1)))

\* the characters of a string as JSON.stringify writes them between quotes
RECURSIVE Escape(_)
Escape(str) ==
  IF str = "" THEN ""
  ELSE (CASE CharAt(str, 1) = "\"" -> "\\\""
          [] CharAt(str, 1) = "\\" -> "\\\\"
          [] CharAt(str, 1) = "\n" -> "\\n"
          [] OTHER -> CharAt(str, 1))
       \o Escape(Slice(str, 2, Len(str)))

\* JSON.stringify(value): no white space between the tokens; a property whose
\* value is undefined is left out and an undefined array element is written
\* as null
RECURSIVE JSON_stringify(_)
JSON_stringify(value) ==
  CASE value.t = "string" -> "\"" \o Escape(value.v) \o "\""
    [] value.t = "number" -> ToString(value.v)
    [] value.t = "boolean" -> (IF value.v THEN "true" ELSE "false")
    [] value.t = "array" ->
         "[" \o Join([i \in 1..Len(value.items) |->
                        IF value.items[i].t = "undefined" THEN "null"
                        ELSE JSON_stringify(value.items[i])], ",") \o "]"
    [] value.t = "object" ->
         LET kept == SortedSeq({i \in 1..Len(value.keys) : value.vals[i].t # "undefined"})
         IN "{" \o Join([k \in 1..Len(kept) |->
                           "\"" \o Escape(value.keys[kept[k]]) \o "\":"
                             \o JSON_stringify(value.vals[kept[k]])], ",") \o "}"
    [] OTHER -> "null"

\* value?.[key]: undefined on null/undefined and on a value without that property
GetProperty(value, key) ==
  IF value.t = "object"
    THEN LET hits == {i \in 1..Len(value.keys) : value.keys[i] = key} IN
         IF hits = {} THEN JSUndefined
         ELSE value.vals[CHOOSE i \in hits : \A j \in hits : j <= i]
    ELSE JSUndefined

\* Array.isArray(value)
Array_isArray(value) == value.t = "array"

\* array.indexOf(s) for a string s: strict equality, 0-based, -1 when absent
IndexOf(items, s) ==
  LET hits == {i \in 1..Len(items) : items[i].t = "string" /\ items[i].v = s} IN
  IF hits = {} THEN -1
  ELSE (CHOOSE i \in hits : \A j \in hits : i <= j) - 1

(***************************************************************************)
(* usedPM(): the running package manager, read from npm_config_user_agent  *)
(* ("<name>/<version> ..."); nothing when the variable is not set.         *)
(***************************************************************************)
NoPM == [some |-> FALSE, name |-> "", version |-> ""]

usedPM(e) ==
  IF ~EnvTruthy(e, "npm_config_user_agent") THEN NoPM
  ELSE LET pmSpec == Split(e["npm_config_user_agent"], " ")[1]
           separatorPos == FindBack(pmSpec, "/", Len(pmSpec))
       IN [some |-> TRUE,
           name |-> Slice(pmSpec, 1, separatorPos - 1),
           version |-> Slice(pmSpec, separatorPos + 1, Len(pmSpec))]

(***************************************************************************)
(* utils/is-global-mode: isGlobalModeFn                                    *)
(***************************************************************************)
Returned(v) == [threw |-> FALSE, value |-> v]
Threw == [threw |-> TRUE, value |-> FALSE]

\* process.env['npm_config_global'] === 'true'
IsGlobalMarker_Truthy(e) == EnvTruthy(e, "npm_config_global")
IsGlobalMarker_NotFalse(e) == ~EnvEquals(e, "npm_config_global", "false")
IsGlobalMarker(e) == EnvEquals(e, "npm_config_global", "true")

\* /^[01]\./.test(version)
IsClassicVersion_NoDot(version) == CharAt(version, 1) \in {"0", "1"}
IsClassicVersion(version) ==
  CharAt(version, 1) \in {"0", "1"} /\ CharAt(version, 2) = "."

\* 0 <= globalPos && globalPos < addPos
GlobalBeforeAdd_NoLowerBound(globalPos, addPos) == globalPos < addPos
GlobalBeforeAdd_BothPresent(globalPos, addPos) == 0 <= globalPos /\ 0 <= addPos
GlobalBeforeAdd(globalPos, addPos) == 0 <= globalPos /\ globalPos < addPos

\* the mode read off npmArgv?.original
ModeOfOriginal(original) ==
  IF Array_isArray(original)
    THEN Returned(GlobalBeforeAdd(IndexOf(original.items, "global"),
                                  IndexOf(original.items, "add")))
    ELSE Returned(FALSE)

\* the mode read off JSON.parse(process.env['npm_config_argv'])
ModeOfArgv(parsed) ==
  IF parsed.threw THEN Threw ELSE ModeOfOriginal(GetProperty(parsed.value, "original"))

\* the mode when npm_config_global is not 'true'
ModeOfPM(packageManager, e) ==
  IF packageManager.name = "npm" \/ packageManager.name = "pnpm" THEN Returned(FALSE)
  ELSE IF packageManager.name = "yarn" /\ IsClassicVersion(packageManager.version)
            /\ EnvTruthy(e, "npm_config_argv")
    THEN ModeOfArgv(JSON_parse(e["npm_config_argv"]))
  ELSE Returned(FALSE)

isGlobalModeFn(e) ==
  IF IsGlobalMarker(e) THEN Returned(TRUE) ELSE ModeOfPM(usedPM(e), e)

(***************************************************************************)
(* Environments enumerated by the specifications.                          *)
(***************************************************************************)
\* npm_config_user_agent of each package-manager identity; NoVar: unidentified
UserAgents ==
  { "npm/8.19.2 node/v18.12.0 linux x64 workspaces/false",
    "pnpm/8.6.0 npm/? node/v18.12.0 linux x64",
    "yarn/0.27.5 npm/? node/v18.12.0 linux x64",
    "yarn/1.22.19 npm/? node/v18.12.0 linux x64",
    "yarn/3.6.0 npm/? node/v18.12.0 linux x64",
    "yarn/10.0.0",
    "bun/0.6.9",
    NoVar }

GlobalValues == { NoVar, "", "false", "1", "TRUE", "true" }

ArgTokens == { "global", "add", "--cache-folder", "bin" }

ArgVectors == UNION { [1..n -> ArgTokens] : n \in 0..MaxArgs }

Quote(s) == "\"" \o s \o "\""

\* JSON.stringify of the object yarn v1 exports as npm_config_argv
ArgvText(original) ==
  "{\"remain\":[],\"original\":["
    \o Join([i \in 1..Len(original) |-> Quote(original[i])], ",") \o "]}"

ArgvValues ==
  { NoVar, "", "{not json", "null", "1", "\"global add\"", "[\"global\",\"add\"]", "{}",
    "{\"original\":\"global add\"}", "{\"original\":null}",
    "{ \"original\" : [ \"global\" , \"add\" ] }",
    "{\"original\":[1,\"global\",null,\"add\"]}",
    "{\"original\":[\"global\",\"add\"]",
    ArgvText(<<"--cache-folder", "x", "bin">>) }
  \cup { ArgvText(v) : v \in ArgVectors }

DetectEnvs ==
  { MkEnv([npm_config_user_agent |-> ua, npm_config_global |-> g, npm_config_argv |-> a]) :
      ua \in UserAgents, g \in GlobalValues, a \in ArgvValues }

(***************************************************************************)
(* Loading utils/is-global-mode evaluates isGlobalModeFn once and exports  *)
(* the result; an exception thrown there aborts the load.                  *)
(***************************************************************************)
LoadIsGlobalMode ==
  /\ pc = "load"
  /\ LET r == isGlobalModeFn(env) IN
       /\ loadError' = r.threw
       /\ isGlobalMode' = r.value
       /\ pc' = IF r.threw THEN "load_threw" ELSE "loaded"
  /\ UNCHANGED <<watch, callbacks>>
  /\ UNCHANGED <<env, platform, cwd, fs, npmBin, spawned, args, ret, mainVars>>

NoRet == [threw |-> FALSE, value |-> ""]
EmptyFs == [files |-> <<>>, dirs |-> <<>>]
NotRun == [ran |-> FALSE, code |-> 0, stdout |-> "", stderr |-> ""]
NoArgs == [cwdList |-> <<>>, dirnameList |-> <<>>, binName |-> ""]
NoResult ==
  [isNull |-> TRUE, error |-> FALSE, stdout |-> "", stderr |-> "",
   readableCommand |-> [command |-> "", args |-> <<>>],
   executedCommand |-> [command |-> "", args |-> <<>>]]

\* the postinstall script has not run
\* no watcher was created
NoWatch ==
  [watcher |-> "none", install |-> "not_started", watchError |-> FALSE, added |-> {},
   captured |-> <<>>, stats |-> <<>>]

MainNotStarted ==
  /\ watch = NoWatch
  /\ callbacks = 0
  /\ isPnPEnabled = FALSE
  /\ binName = JSUndefined
  /\ binCommandResult = NoResult
  /\ expectedValues = JSUndefined
  /\ emitted = <<>>
  /\ written = <<>>
  /\ log = <<>>
  /\ thrown = ""
  /\ exitCode = 0

InitDetect ==
  /\ pc = "load"
  /\ env \in DetectEnvs
  /\ platform = "linux"
  /\ cwd = "/"
  /\ isGlobalMode = FALSE
  /\ loadError = FALSE
  /\ fs = EmptyFs
  /\ npmBin = NotRun
  /\ spawned = <<>>
  /\ args = NoArgs
  /\ ret = NoRet
  /\ MainNotStarted

NextDetect == LoadIsGlobalMode

SpecDetect == InitDetect /\ [][NextDetect]_vars

(***************************************************************************)
(* Claims about the global-mode detector (checked under SpecDetect).       *)
(***************************************************************************)
\* the detector has returned or thrown
DetectorDone == pc \in {"loaded", "load_threw"}

\* the major version of the running package manager is 0 or 1
MajorIs0or1 == Split(usedPM(env).version, ".")[1] \in {"0", "1"}

YarnClassic == usedPM(env).name = "yarn" /\ MajorIs0or1
YarnBerry == usedPM(env).name = "yarn" /\ ~MajorIs0or1

NoExplicitGlobal == ~EnvEquals(env, "npm_config_global", "true")

\* npm_config_argv holds well-formed JSON whose `original` is an array
ArgvHasArrayOriginal ==
  /\ EnvTruthy(env, "npm_config_argv")
  /\ ~JSON_parse(env["npm_config_argv"]).threw
  /\ GetProperty(JSON_parse(env["npm_config_argv"]).value, "original").t = "array"

ArgvOriginal == GetProperty(JSON_parse(env["npm_config_argv"]).value, "original").items

IsToken(items, i, s) == items[i].t = "string" /\ items[i].v = s

\* both tokens occur and the first "global" stands before the first "add"
FirstGlobalBeforeFirstAdd(items) ==
  \E g, a \in 1..Len(items) :
    /\ IsToken(items, g, "global") /\ \A k \in 1..(g - 1) : ~IsToken(items, k, "global")
    /\ IsToken(items, a, "add") /\ \A k \in 1..(a - 1) : ~IsToken(items, k, "add")
    /\ g < a

ArgvIs(original) ==
  ArgvHasArrayOriginal /\ ArgvOriginal = [i \in 1..Len(original) |-> JSString(original[i])]

\* C1: whenever npm_config_global is exactly "true" the detector returns true, for
\* every package-manager identity and every other variable; for npm and pnpm it
\* returns true in that case only ("", "false", "1", "TRUE" and unset give false).
C1_ExplicitGlobalMarker ==
  DetectorDone =>
    /\ EnvEquals(env, "npm_config_global", "true") => (~loadError /\ isGlobalMode)
    /\ usedPM(env).name \in {"npm", "pnpm"} =>
         (~loadError /\ (isGlobalMode <=> EnvEquals(env, "npm_config_global", "true")))

C1_Witness ==
  /\ pc = "loaded" /\ isGlobalMode
  /\ EnvEquals(env, "npm_config_global", "true")
  /\ YarnBerry /\ ArgvIs(<<"add">>)

\* C2: with npm_config_global and npm_config_argv both unset the detector returns
\* false, whatever the package-manager identity.
C2_NoMarkersIsLocal ==
  (DetectorDone /\ ~IsSet(env, "npm_config_global") /\ ~IsSet(env, "npm_config_argv"))
    => (~loadError /\ ~isGlobalMode)

C2_Witness ==
  /\ pc = "loaded" /\ ~isGlobalMode
  /\ ~IsSet(env, "npm_config_global") /\ ~IsSet(env, "npm_config_argv")
  /\ YarnClassic

\* C3: for yarn 0.x/1.x without the explicit marker and with npm_config_argv holding
\* JSON with an array `original`, the detector returns true iff "global" and "add"
\* both occur in `original` and the first "global" precedes the first "add".
C3_GlobalBeforeAdd ==
  (DetectorDone /\ YarnClassic /\ NoExplicitGlobal /\ ArgvHasArrayOriginal) =>
    /\ ~loadError
    /\ isGlobalMode <=> FirstGlobalBeforeFirstAdd(ArgvOriginal)
    /\ ArgvIs(<<"--cache-folder", "x", "bin">>) => ~isGlobalMode
    /\ ArgvIs(<<"global", "add">>) => isGlobalMode
    /\ ArgvIs(<<"--cache-folder", "global", "add">>) => isGlobalMode

C3_Witness ==
  /\ pc = "loaded" /\ isGlobalMode
  /\ YarnClassic /\ NoExplicitGlobal
  /\ ArgvIs(<<"--cache-folder", "global", "add">>)

\* C4 (as stated): for yarn classic with original arguments ["add", "global"] and no
\* explicit global marker the detector returns true.
C4_AddThenGlobalIsGlobal ==
  (DetectorDone /\ YarnClassic /\ NoExplicitGlobal /\ ArgvIs(<<"add", "global">>))
    => (~loadError /\ isGlobalMode)

\* C4 (amended): for yarn classic with original arguments ["add", "global"] and no
\* explicit global marker the detector returns false.
C4_AddThenGlobalIsLocal ==
  (DetectorDone /\ YarnClassic /\ NoExplicitGlobal /\ ArgvIs(<<"add", "global">>))
    => (~loadError /\ ~isGlobalMode)

C4_Witness ==
  /\ pc = "loaded" /\ ~isGlobalMode
  /\ YarnClassic /\ ~IsSet(env, "npm_config_global")
  /\ ArgvIs(<<"add", "global">>)

\* C5: for yarn with a version other than 0.x/1.x and without the explicit marker the
\* detector returns false for every npm_config_argv, ["global", "add"] included.
C5_BerryIsLocal ==
  (DetectorDone /\ YarnBerry /\ NoExplicitGlobal) => (~loadError /\ ~isGlobalMode)

C5_Witness ==
  /\ pc = "loaded" /\ ~isGlobalMode
  /\ YarnBerry /\ NoExplicitGlobal
  /\ ArgvIs(<<"global", "add">>)

\* C6: the detector has no error outcome: for every identity and environment, also
\* with an npm_config_argv that is not well-formed JSON or has no array `original`,
\* it returns a boolean and never throws.
C6_DetectorNeverThrows ==
  DetectorDone => (~loadError /\ pc = "loaded" /\ isGlobalMode \in BOOLEAN)

(***************************************************************************)
(* Character codes: String.prototype.toLowerCase and the code-unit order   *)
(* that Array.prototype.sort() uses on strings.                            *)
(***************************************************************************)
\* the printable ASCII characters from the space (code 32) on, in code order; the
\* grave accent (code 96), which a TLA+ string cannot hold, is left blank
AsciiTable ==
  " !\"#$%&'()*+,-./0123456789:;<=>?@ABCDEFGHIJKLMNOPQRSTUVWXYZ[\\]^_ abcdefghijklmnopqrstuvwxyz{|}~"

FirstAsciiCode == 32
UpperA == 65
UpperZ == 90
CaseOffset == 32

\* c.charCodeAt(0); 0 for the empty string (the end of a string sorts first)
CharCode(c) == IF c = "" THEN 0 ELSE FindFrom(AsciiTable, c, 1) + FirstAsciiCode - 1

CharOfCode(n) == CharAt(AsciiTable, n - FirstAsciiCode + 1)

ToLowerChar(c) ==
  IF UpperA <= CharCode(c) /\ CharCode(c) <= UpperZ
    THEN CharOfCode(CharCode(c) + CaseOffset) ELSE c

\* s.toLowerCase()
RECURSIVE ToLowerCase(_)
ToLowerCase(s) ==
  IF s = "" THEN "" ELSE ToLowerChar(CharAt(s, 1)) \o ToLowerCase(Slice(s, 2, Len(s)))

\* a < b in the order of Array.prototype.sort() without a comparator
StrLess(a, b) ==
  LET n == IF Len(a) < Len(b) THEN Len(b) ELSE Len(a)
      diff == {i \in 1..n : CharAt(a, i) # CharAt(b, i)}
  IN diff # {} /\ CharCode(CharAt(a, SetMin(diff))) < CharCode(CharAt(b, SetMin(diff)))

\* items.sort(): each item stands after the items that are smaller
SortStrings(items) ==
  LET n == Len(items)
      before(i) == Cardinality({j \in 1..n : StrLess(items[j], items[i])})
                     + Cardinality({j \in 1..(i - 1) : items[j] = items[i]})
  IN [k \in 1..n |-> items[CHOOSE i \in 1..n : before(i) = k - 1]]

(***************************************************************************)
(* The path module (path.posix on every platform but win32, where          *)
(* path.win32 applies; UNC paths are outside the model).                   *)
(***************************************************************************)
\* path.sep
PathSep(plat) == IF plat = "win32" THEN "\\" ELSE "/"

IsPathSep(plat, c) == c = "/" \/ (plat = "win32" /\ c = "\\")

\* the pieces of p between path separators
PathSplit(plat, p) ==
  LET cuts == SortedSeq({i \in 1..Len(p) : IsPathSep(plat, CharAt(p, i))})
      n == Len(cuts)
      from(k) == IF k = 1 THEN 1 ELSE cuts[k - 1] + 1
      to(k) == IF k = n + 1 THEN Len(p) ELSE cuts[k] - 1
  IN [k \in 1..(n + 1) |-> Slice(p, from(k), to(k))]

\* the drive of a win32 path ("C:"), empty elsewhere
PathDevice(plat, p) ==
  IF plat = "win32" /\ CharAt(p, 2) = ":" THEN Slice(p, 1, 2) ELSE ""

\* the length of the root of p: "/" on posix, "C:\" or "\" on win32
PathRootLen(plat, p) ==
  LET d == Len(PathDevice(plat, p)) IN
  IF IsPathSep(plat, CharAt(p, d + 1)) THEN d + 1 ELSE d

\* normalizeString: drops "" and ".", resolves ".."
RECURSIVE NormalizeSegments(_, _, _)
NormalizeSegments(segs, acc, allowAboveRoot) ==
  IF segs = <<>> THEN acc
  ELSE LET h == Head(segs) IN
       IF h = "" \/ h = "." THEN NormalizeSegments(Tail(segs), acc, allowAboveRoot)
       ELSE IF h = ".." THEN
         IF acc # <<>> /\ acc[Len(acc)] # ".."
           THEN NormalizeSegments(Tail(segs), SubSeq(acc, 1, Len(acc) - 1), allowAboveRoot)
         ELSE IF allowAboveRoot
           THEN NormalizeSegments(Tail(segs), Append(acc, ".."), allowAboveRoot)
         ELSE NormalizeSegments(Tail(segs), acc, allowAboveRoot)
       ELSE NormalizeSegments(Tail(segs), Append(acc, h), allowAboveRoot)

\* path.normalize(p)
path_normalize(plat, p) ==
  IF p = "" THEN "."
  ELSE
    LET sep == PathSep(plat)
        device == PathDevice(plat, p)
        rest == Slice(p, Len(device) + 1, Len(p))
        isAbsolute == IsPathSep(plat, CharAt(rest, 1))
        trailingSeparator == rest # "" /\ IsPathSep(plat, CharAt(rest, Len(rest)))
        tail == Join(NormalizeSegments(PathSplit(plat, rest), <<>>, ~isAbsolute), sep)
    IN IF tail = "" THEN
         IF isAbsolute THEN device \o sep
         ELSE IF device # "" THEN device \o "."
         ELSE IF trailingSeparator THEN "." \o sep
         ELSE "."
       ELSE device \o (IF isAbsolute THEN sep ELSE "") \o tail
              \o (IF trailingSeparator THEN sep ELSE "")

\* path.join(...parts): the non-empty parts joined by the separator, normalized
path_join(plat, parts) ==
  LET kept == SortedSeq({i \in 1..Len(parts) : parts[i] # ""})
      joined == Join([k \in 1..Len(kept) |-> parts[kept[k]]], PathSep(plat))
  IN IF joined = "" THEN "." ELSE path_normalize(plat, joined)

\* path.dirname(p)
path_dirname(plat, p) ==
  LET rootLen == PathRootLen(plat, p)
      root == IF rootLen = 0 THEN "." ELSE Slice(p, 1, rootLen)
      inked == {i \in (rootLen + 1)..Len(p) : ~IsPathSep(plat, CharAt(p, i))}
  IN IF inked = {} THEN root
     ELSE
       LET seps == {i \in (rootLen + 1)..(SetMax(inked) - 1) : IsPathSep(plat, CharAt(p, i))}
       IN IF seps = {} THEN root
          ELSE IF plat # "win32" /\ rootLen = 1 /\ SetMax(seps) = 2 THEN "//"
          ELSE Slice(p, 1, SetMax(seps) - 1)

(***************************************************************************)
(* The file system, as fs/promises sees it.                                *)
(***************************************************************************)
\* the name under which the file system knows p: normalized, no trailing separator
FsKey(plat, p) ==
  LET n == path_normalize(plat, p) IN
  IF Len(n) > PathRootLen(plat, n) /\ IsPathSep(plat, CharAt(n, Len(n)))
    THEN Slice(n, 1, Len(n) - 1) ELSE n

\* fs.stat(filepath).then((stat) => stat.isFile()).catch(() => false)
fileExists(plat, filesys, filepath) == FsKey(plat, filepath) \in DOMAIN filesys.files

(***************************************************************************)
(* utils/get-installation-path                                             *)
(***************************************************************************)
\* 'workspaces' in pkgJson, for the parsed text of a package.json
HasWorkspacesField(pkgJson) ==
  pkgJson.t = "object" /\ \E i \in 1..Len(pkgJson.keys) : pkgJson.keys[i] = "workspaces"

\* the parsed JSON file at filepath; threw when it cannot be read or parsed
ReadJSON(filesys, pathKey) ==
  IF pathKey \in DOMAIN filesys.files
    THEN JSON_parse(filesys.files[pathKey])
    ELSE [threw |-> TRUE, value |-> JSUndefined]

\* the package.json read at dirpath announces workspaces
HasWorkspaces(pkg) == ~pkg.threw /\ HasWorkspacesField(pkg.value)

IsPnpm(packageManager) == packageManager.some /\ ToLowerCase(packageManager.name) = "pnpm"

isWorkspaceRoot_Never(e, plat, filesys, dirpath) == FALSE
isWorkspaceRoot(e, plat, filesys, dirpath) ==
  IF IsPnpm(usedPM(e))
    THEN fileExists(plat, filesys, path_join(plat, <<dirpath, "pnpm-workspace.yaml">>))
    ELSE HasWorkspaces(ReadJSON(filesys, FsKey(plat, path_join(plat, <<dirpath, "package.json">>))))

\* /(?:^| )workspaces\/true(?: |$)/.test(env['npm_config_user_agent'])
IsWorkspacePackage(e) ==
  /\ IsSet(e, "npm_config_user_agent")
  /\ \E i \in 1..Len(Split(e["npm_config_user_agent"], " ")) :
       Split(e["npm_config_user_agent"], " ")[i] = "workspaces/true"

\* the local prefix is trusted: not a workspace package, or not the workspace root
TrustLocalPrefix_NoWorkspaceOnly(e, plat, filesys) == ~IsWorkspacePackage(e)
TrustLocalPrefix(e, plat, filesys) ==
  ~IsWorkspacePackage(e) \/ ~isWorkspaceRoot(e, plat, filesys, e["npm_config_local_prefix"])

\* the common leading items of cwd and INIT_CWD followed by node_modules/.bin;
\* nothing is returned when the two paths have the same items
CommonParentBin(e, plat, dir) ==
  LET cwdPathItems == Split(dir, PathSep(plat))
      initCwdPathItems == Split(e["INIT_CWD"], PathSep(plat))
      n == IF Len(cwdPathItems) < Len(initCwdPathItems)
             THEN Len(initCwdPathItems) ELSE Len(cwdPathItems)
      differ == {i \in 1..n : \/ i > Len(cwdPathItems)
                              \/ i > Len(initCwdPathItems)
                              \/ cwdPathItems[i] # initCwdPathItems[i]}
  IN IF differ = {} THEN [found |-> FALSE, value |-> ""]
     ELSE [found |-> TRUE,
           value |-> Join(SubSeq(cwdPathItems, 1, SetMin(differ) - 1)
                            \o <<"node_modules", ".bin">>, PathSep(plat))]

\* dir.replace(/node_modules.*[\/\\]\.bin/, path.join('node_modules', '.bin'))
\* (the texts of the model hold no line break inside a path)
ReplaceNodeModulesBin_Identity(plat, dir) == dir
ReplaceNodeModulesBin(plat, dir) ==
  LET start == FindFrom(dir, "node_modules", 1)
      ends == {j \in 1..Len(dir) : /\ start # 0
                                   /\ j >= start + Len("node_modules")
                                   /\ CharAt(dir, j) \in {"/", "\\"}
                                   /\ Slice(dir, j + 1, j + Len(".bin")) = ".bin"}
  IN IF ends = {} THEN dir
     ELSE Slice(dir, 1, start - 1) \o path_join(plat, <<"node_modules", ".bin">>)
            \o Slice(dir, SetMax(ends) + Len(".bin") + 1, Len(dir))

\* the directory built from npm_config_prefix
GlobalPrefixBin(plat, prefix) == path_join(plat, <<prefix, "bin">>)

NotFound == [threw |-> TRUE, value |-> "Error finding binary installation directory"]

\* the local branch: no child process is involved
LocalInstallationPath(e, plat, dir, filesys) ==
  IF EnvTruthy(e, "npm_config_local_prefix") /\ TrustLocalPrefix(e, plat, filesys)
    THEN Returned(path_join(plat, <<e["npm_config_local_prefix"], "node_modules/.bin">>))
  ELSE IF EnvTruthy(e, "INIT_CWD") /\ CommonParentBin(e, plat, dir).found
    THEN Returned(CommonParentBin(e, plat, dir).value)
  ELSE NotFound

\* what `await execAsync('npm bin').catch(() => ({ stdout: '', stderr: '' }))` yields
ExecAsyncOrEmpty(outcome) ==
  IF outcome.code # 0 THEN [stdout |-> "", stderr |-> ""]
  ELSE [stdout |-> outcome.stdout, stderr |-> outcome.stderr]

\* the global branch, given the outcome of the `npm bin` child process
GlobalInstallationPath(e, plat, dir, outcome) ==
  LET out == ExecAsyncOrEmpty(outcome) IN
  IF out.stderr # "" \/ out.stdout = "" THEN
    IF EnvTruthy(e, "npm_config_prefix")
      THEN Returned(ReplaceNodeModulesBin(plat, GlobalPrefixBin(plat, e["npm_config_prefix"])))
    ELSE IF EnvTruthy(e, "npm_config_local_prefix")
      THEN Returned(ReplaceNodeModulesBin(plat,
             path_join(plat, <<e["npm_config_local_prefix"],
                               path_join(plat, <<"node_modules", ".bin">>)>>)))
    ELSE IF usedPM(e).some /\ ToLowerCase(usedPM(e).name) = "pnpm"
      THEN Returned(ReplaceNodeModulesBin(plat, path_join(plat, <<dir, "node_modules", ".bin">>)))
    ELSE NotFound
  ELSE Returned(ReplaceNodeModulesBin(plat, Trim(out.stdout)))

(***************************************************************************)
(* Installation-path scenarios: the environment, working directory,        *)
(* platform and file system are fixed when the process starts; the         *)
(* `npm bin` child process yields its outcome when it is run.              *)
(***************************************************************************)
Platforms == {"linux", "win32"}

\* the absolute path with the given items on the platform
SamplePath(plat, items) ==
  (IF plat = "win32" THEN "C:\\" ELSE "/") \o Join(items, PathSep(plat))

PathUserAgents ==
  { "npm/8.19.2 node/v18.12.0 linux x64 workspaces/true",
    "yarn/1.22.19 npm/? node/v18.12.0 linux x64",
    "pnpm/8.6.0 npm/? node/v18.12.0 linux x64",
    "pnpm/8.6.0 npm/? node/v18.12.0 linux x64 workspaces/true",
    NoVar }

\* what the workspace directory w may hold
WorkspaceFiles(plat) ==
  LET pkg == SamplePath(plat, <<"w", "package.json">>)
      yaml == SamplePath(plat, <<"w", "pnpm-workspace.yaml">>)
  IN { <<>>,
       [f \in {yaml} |-> "packages:\n  - packages/*\n"],
       [f \in {pkg} |-> "{\"name\":\"w\",\"workspaces\":[\"packages/*\"]}"],
       [f \in {pkg} |-> "{\"name\":\"w\"}"],
       [f \in {pkg} |-> "[\"workspaces\"]"] }

PathEnvs(plat) ==
  { MkEnv([npm_config_user_agent |-> ua, npm_config_global |-> g,
           npm_config_local_prefix |-> lp, npm_config_prefix |-> gp, INIT_CWD |-> ic]) :
      ua \in PathUserAgents,
      g \in {NoVar, "true"},
      lp \in {NoVar, "", SamplePath(plat, <<"w">>)},
      gp \in {NoVar, SamplePath(plat, <<"usr", "local">>)},
      ic \in {NoVar, SamplePath(plat, <<"w">>), SamplePath(plat, <<"w", "packages", "a">>)} }

WorkingDirs(plat) ==
  { SamplePath(plat, <<"w">>),
    SamplePath(plat, <<"w", "node_modules", "foo">>),
    SamplePath(plat, <<"w", "packages", "b">>) }

\* what `npm bin` may do: fail (npm 9 has no such command), or print a directory,
\* a directory and a warning, or nothing
NpmBinOutcomes(plat) ==
  { [ran |-> TRUE, code |-> 1, stdout |-> "", stderr |-> "npm ERR! Unknown command: \"bin\"\n"],
    [ran |-> TRUE, code |-> 0, stderr |-> "",
     stdout |-> SamplePath(plat, <<"w", "node_modules", ".bin">>) \o "\n"],
    [ran |-> TRUE, code |-> 0, stderr |-> "",
     stdout |-> SamplePath(plat, <<"w", "node_modules", "foo", "node_modules", ".bin">>) \o "\n"],
    [ran |-> TRUE, code |-> 0, stderr |-> "npm WARN config global\n",
     stdout |-> SamplePath(plat, <<"usr", "local", "bin">>) \o "\n"],
    [ran |-> TRUE, code |-> 0, stdout |-> "", stderr |-> ""] }

\* getInstallationPath(), called once the module is loaded
GetInstallationPath ==
  /\ pc = "loaded"
  /\ IF ~isGlobalMode
       THEN /\ ret' = LocalInstallationPath(env, platform, cwd, fs)
            /\ UNCHANGED <<npmBin, spawned>>
       ELSE \E outcome \in NpmBinOutcomes(platform) :
              /\ npmBin' = outcome
              /\ spawned' = Append(spawned, [api |-> "exec", file |-> "npm bin", args |-> <<>>,
                                              code |-> outcome.code])
              /\ ret' = GlobalInstallationPath(env, platform, cwd, outcome)
  /\ pc' = "resolved"
  /\ UNCHANGED <<watch, callbacks>>
  /\ UNCHANGED <<env, platform, cwd, isGlobalMode, loadError, fs, args, mainVars>>

InitPath ==
  /\ pc = "load"
  /\ platform \in Platforms
  /\ env \in PathEnvs(platform)
  /\ cwd \in WorkingDirs(platform)
  /\ fs \in {[files |-> f, dirs |-> <<>>] : f \in WorkspaceFiles(platform)}
  /\ isGlobalMode = FALSE
  /\ loadError = FALSE
  /\ npmBin = NotRun
  /\ spawned = <<>>
  /\ args = NoArgs
  /\ ret = NoRet
  /\ MainNotStarted

NextPath == LoadIsGlobalMode \/ GetInstallationPath

SpecPath == InitPath /\ [][NextPath]_vars

(***************************************************************************)
(* Claims about getInstallationPath (checked under SpecPath).              *)
(***************************************************************************)
LocalPrefix == env["npm_config_local_prefix"]

\* the user agent announces workspaces/true
AnnouncesWorkspaces ==
  IsSet(env, "npm_config_user_agent")
    /\ FindFrom(env["npm_config_user_agent"], "workspaces/true", 1) # 0

\* the directory of the local prefix holds the workspace marker of the package
\* manager: pnpm-workspace.yaml for pnpm, a package.json with a workspaces field
\* for the others
PrefixIsWorkspaceRoot ==
  LET yaml == LocalPrefix \o PathSep(platform) \o "pnpm-workspace.yaml"
      pkg == LocalPrefix \o PathSep(platform) \o "package.json"
  IN IF usedPM(env).name = "pnpm" THEN yaml \in DOMAIN fs.files
     ELSE /\ pkg \in DOMAIN fs.files
          /\ ~JSON_parse(fs.files[pkg]).threw
          /\ GetProperty(JSON_parse(fs.files[pkg]).value, "workspaces") # JSUndefined

\* C8: in local mode, with npm_config_local_prefix set (to a directory) and either no
\* workspaces/true in the user agent or a prefix directory that is no workspace
\* root, getInstallationPath returns <prefix>/node_modules/.bin and spawns no
\* child process.
C8_LocalPrefixIsUsed ==
  (/\ pc = "resolved" /\ ~isGlobalMode
   /\ EnvTruthy(env, "npm_config_local_prefix")
   /\ (~AnnouncesWorkspaces \/ ~PrefixIsWorkspaceRoot))
  => /\ ret = [threw |-> FALSE,
               value |-> LocalPrefix \o PathSep(platform) \o "node_modules"
                           \o PathSep(platform) \o ".bin"]
     /\ spawned = <<>>
     /\ ~npmBin.ran

C8_Witness ==
  /\ pc = "resolved" /\ ~isGlobalMode
  /\ EnvTruthy(env, "npm_config_local_prefix")
  /\ AnnouncesWorkspaces /\ ~PrefixIsWorkspaceRoot
  /\ fs.files # <<>>
  /\ ~ret.threw /\ ret.value = "C:\\w\\node_modules\\.bin"
  /\ spawned = <<>>

\* the `npm bin` query gave nothing usable: it failed, wrote to stderr or printed nothing
BinQueryUnusable == npmBin.ran /\ (npmBin.code # 0 \/ npmBin.stderr # "" \/ npmBin.stdout = "")

\* C9: in global mode, when the bin query gives no usable output and only
\* npm_config_prefix is set, the resolver returns <prefix>/bin on POSIX-like
\* platforms and the prefix itself on win32.
C9_GlobalPrefixByPlatform ==
  (/\ pc = "resolved" /\ isGlobalMode /\ BinQueryUnusable
   /\ EnvTruthy(env, "npm_config_prefix")
   /\ ~IsSet(env, "npm_config_local_prefix"))
  => ret = [threw |-> FALSE,
            value |-> IF platform = "win32" THEN env["npm_config_prefix"]
                      ELSE env["npm_config_prefix"] \o "/bin"]

(***************************************************************************)
(* utils/find-installed-executables                                        *)
(***************************************************************************)
\* the bounds of the finder's scenarios: the roots handed to one call
MaxRoots == 2

\* the outcome of a readdir that is rejected
NoDir == <<"<no such directory>">>

RECURSIVE Flatten(_)
Flatten(seqs) == IF seqs = <<>> THEN <<>> ELSE Head(seqs) \o Flatten(Tail(seqs))

\* the directory and its ancestors, up to the directory that is its own parent
AncestorChain_OnlySelf(plat, dir) == <<dir>>
RECURSIVE AncestorChain(_, _)
AncestorChain(plat, dir) ==
  LET parentDir == path_dirname(plat, dir) IN
  IF parentDir = dir THEN <<dir>> ELSE <<dir>> \o AncestorChain(plat, parentDir)

\* dirname ? path.join(cwd, dirname) : cwd
CandidateDir(plat, dir, dirname) ==
  IF dirname # "" THEN path_join(plat, <<dir, dirname>>) ELSE dir

\* new Set(items), in insertion order
SetOf(items) ==
  LET firsts == SortedSeq({i \in 1..Len(items) : \A j \in 1..(i - 1) : items[j] # items[i]})
  IN [k \in 1..Len(firsts) |-> items[firsts[k]]]

\* bindirSet
BinDirs(plat, cwdList, dirnameList) ==
  LET sorted == SortStrings(Flatten([i \in 1..Len(cwdList) |-> AncestorChain(plat, cwdList[i])]))
  IN SetOf(Flatten([i \in 1..Len(sorted) |->
                      [j \in 1..Len(dirnameList) |->
                         CandidateDir(plat, sorted[i], dirnameList[j])]]))

\* await readdir(bindir).catch(() => [])
ReaddirOrEmpty(plat, filesys, dir) ==
  IF FsKey(plat, dir) \in DOMAIN filesys.dirs THEN filesys.dirs[FsKey(plat, dir)] ELSE <<>>

\* filename === binName || filename.startsWith(`${binName}.`)
IsBinFile_AnyPrefix(filename, nameOfBin) == filename = nameOfBin \/ StartsWith(filename, nameOfBin)
IsBinFile(filename, nameOfBin) == filename = nameOfBin \/ StartsWith(filename, nameOfBin \o ".")

findInstalledExecutables(plat, filesys, cwdList, dirnameList, nameOfBin) ==
  LET bindirs == BinDirs(plat, cwdList, dirnameList)
      found(bindir) ==
        LET filenameList == ReaddirOrEmpty(plat, filesys, bindir)
            kept == SortedSeq({i \in 1..Len(filenameList) : IsBinFile(filenameList[i], nameOfBin)})
        IN [m \in 1..Len(kept) |-> path_join(plat, <<bindir, filenameList[kept[m]]>>)]
  IN Flatten([k \in 1..Len(bindirs) |-> found(bindirs[k])])

(***************************************************************************)
(* Finder scenarios: one call of findInstalledExecutables on a file system *)
(* whose directories are fixed during the call.                            *)
(***************************************************************************)
RootDirs == {"/w/p", "/w/p/", "/g/bin"}

RootLists == UNION {[1..n -> RootDirs] : n \in 1..MaxRoots}

\* the suffix lists the postinstall script passes: local mode, global mode
DirnameLists == {<<"node_modules/.bin">>, <<"bin", "">>}

BinNames == {"foo"}

\* what readdir may give for a directory; NoDir: the directory cannot be listed
Listings ==
  { NoDir, <<>>,
    <<"foo", "foo.cmd", "foobar", "sub">>,
    <<"foo.d", "Foo", "fo", "fo.exe">> }

\* the directories below dir that its listing names; each holds a file called
\* like the binary
SubDirsOf(dir, listing) ==
  {d \in {dir \o "/sub", dir \o "/foo.d"} :
     \E i \in 1..Len(listing) : dir \o "/" \o listing[i] = d}

ListedDirs == {"/w/p/node_modules/.bin", "/g/bin", "/w/p"}

\* the directories of the file system in which each listed directory has the
\* listing chosen for it
DirsOf(choice) ==
  LET present == {d \in ListedDirs : choice[d] # NoDir}
      nested == UNION {SubDirsOf(d, choice[d]) : d \in present}
  IN [d \in present \cup nested |-> IF d \in present THEN choice[d] ELSE <<"foo", "fo">>]

FinderFileSystems == {[files |-> <<>>, dirs |-> DirsOf(c)] : c \in [ListedDirs -> Listings]}

\* one call of findInstalledExecutables(cwdList, dirnameList, binName)
FindInstalledExecutables_NoCatch ==
  /\ pc = "find"
  /\ ret' = IF \E k \in 1..Len(BinDirs(platform, args.cwdList, args.dirnameList)) :
                  FsKey(platform, BinDirs(platform, args.cwdList, args.dirnameList)[k])
                    \notin DOMAIN fs.dirs
            THEN Threw
            ELSE Returned(findInstalledExecutables(platform, fs, args.cwdList,
                                                   args.dirnameList, args.binName))
  /\ pc' = "found"
  /\ UNCHANGED <<watch, callbacks>>
  /\ UNCHANGED <<env, platform, cwd, isGlobalMode, loadError, fs, npmBin, spawned, args, mainVars>>
FindInstalledExecutables ==
  /\ pc = "find"
  /\ ret' = Returned(findInstalledExecutables(platform, fs, args.cwdList,
                                              args.dirnameList, args.binName))
  /\ pc' = "found"
  /\ UNCHANGED <<watch, callbacks>>
  /\ UNCHANGED <<env, platform, cwd, isGlobalMode, loadError, fs, npmBin, spawned, args, mainVars>>

InitFind ==
  /\ pc = "find"
  /\ platform = "linux"
  /\ env = <<>>
  /\ cwd = "/w/p"
  /\ fs \in FinderFileSystems
  /\ args \in {[cwdList |-> l, dirnameList |-> d, binName |-> b] :
                 l \in RootLists, d \in DirnameLists, b \in BinNames}
  /\ isGlobalMode = FALSE
  /\ loadError = FALSE
  /\ npmBin = NotRun
  /\ spawned = <<>>
  /\ ret = NoRet
  /\ MainNotStarted

NextFind == FindInstalledExecutables

SpecFind == InitFind /\ [][NextFind]_vars

(***************************************************************************)
(* Claims about findInstalledExecutables                                   *)
(***************************************************************************)
FinderDone == pc = "found"

\* the directories the call searches
SearchedDirs ==
  LET bindirs == BinDirs(platform, args.cwdList, args.dirnameList)
  IN {bindirs[k] : k \in 1..Len(bindirs)}

\* the names readdir gives for a directory, none when it cannot be listed
EntriesOf(dir) ==
  IF FsKey(platform, dir) \in DOMAIN fs.dirs
  THEN {fs.dirs[FsKey(platform, dir)][i] : i \in 1..Len(fs.dirs[FsKey(platform, dir)])}
  ELSE {}

\* an entry of a directory, written as a path
EntryPath(dir, filename) ==
  IF CharAt(dir, Len(dir)) = "/" THEN dir \o filename ELSE dir \o "/" \o filename

NamesTheBinary(filename) ==
  \/ filename = args.binName
  \/ /\ Len(filename) > Len(args.binName)
     /\ \A i \in 1..Len(args.binName) : CharAt(filename, i) = CharAt(args.binName, i)
     /\ CharAt(filename, Len(args.binName) + 1) = "."

ReturnedPaths == {ret.value[i] : i \in 1..Len(ret.value)}

\* C10: the finder returns exactly the direct entries of the searched
\* directories whose name is binName or starts with binName followed by a dot,
\* each joined to its directory; of the entries foo, foo.cmd and foobar it
\* returns foo and foo.cmd and not foobar; it returns no entry of a
\* sub-directory of a searched directory that is not itself searched.
C10_FinderReturnsMatchingEntries ==
  FinderDone =>
    LET searched == SearchedDirs
        returned == ReturnedPaths
    IN
    /\ ~ret.threw
    /\ returned =
         UNION {{EntryPath(d, n) : n \in {e \in EntriesOf(d) : NamesTheBinary(e)}} : d \in searched}
    /\ \A d \in searched :
         {"foo", "foo.cmd", "foobar"} \subseteq EntriesOf(d) =>
           /\ EntryPath(d, "foo") \in returned
           /\ EntryPath(d, "foo.cmd") \in returned
           /\ EntryPath(d, "foobar") \notin returned
    /\ \A sub \in DOMAIN fs.dirs :
         (\A d \in searched : FsKey(platform, d) # sub) =>
           \A n \in EntriesOf(sub) : EntryPath(sub, n) \notin returned

\* a call in local mode that found foo and foo.cmd in /w/p/node_modules/.bin
\* next to foobar and to a sub-directory holding another foo
C10_Witness ==
  /\ FinderDone
  /\ args.binName = "foo"
  /\ args.dirnameList = <<"node_modules/.bin">>
  /\ "/w/p/node_modules/.bin/sub" \in DOMAIN fs.dirs
  /\ "foobar" \in EntriesOf("/w/p/node_modules/.bin")
  /\ ret.value = <<"/w/p/node_modules/.bin/foo", "/w/p/node_modules/.bin/foo.cmd">>

\* the searched directories readdir can list
Listable(dir) == FsKey(platform, dir) \in DOMAIN fs.dirs

\* how many entries of a directory name the binary
MatchCount(dir) ==
  IF Listable(dir)
  THEN Cardinality({i \in 1..Len(fs.dirs[FsKey(platform, dir)]) :
                      NamesTheBinary(fs.dirs[FsKey(platform, dir)][i])})
  ELSE 0

RECURSIVE SumOver(_, _)
SumOver(dirs, k) == IF k = 0 THEN 0 ELSE MatchCount(dirs[k]) + SumOver(dirs, k - 1)

\* the directory a returned path lies in
DirOfPath(p) == path_dirname(platform, p)

\* C11: when some searched directories cannot be listed the call does not
\* fail; no returned path lies in an unlistable directory, and the result is
\* the matches of the listable searched directories, as many as they hold.
C11_UnlistableDirsGiveNothing ==
  FinderDone =>
    LET searched == SearchedDirs
        returned == ReturnedPaths
        bindirs == BinDirs(platform, args.cwdList, args.dirnameList)
    IN
    /\ ~ret.threw
    /\ \A d \in searched : ~Listable(d) =>
         \A p \in returned : FsKey(platform, DirOfPath(p)) # FsKey(platform, d)
    /\ returned =
         UNION {{EntryPath(d, n) : n \in {e \in EntriesOf(d) : NamesTheBinary(e)}} :
                  d \in {x \in searched : Listable(x)}}
    /\ Len(ret.value) = SumOver(bindirs, Len(bindirs))

\* a call in global mode whose root /g/bin cannot be listed while its root /w/p
\* holds foo and foo.cmd
C11_Witness ==
  /\ FinderDone
  /\ args.cwdList = <<"/w/p", "/g/bin">>
  /\ args.dirnameList = <<"bin", "">>
  /\ ~Listable("/g/bin")
  /\ "/g/bin" \in SearchedDirs
  /\ ret.value = <<"/w/p/foo", "/w/p/foo.cmd">>

\* C12: the list the finder returns contains no path twice, whatever the
\* roots (ancestors of one another, repeated, written with a trailing
\* separator) and whatever the suffix list.
C12_NoPathTwice ==
  FinderDone =>
    \A i, j \in 1..Len(ret.value) : ret.value[i] = ret.value[j] => i = j

(***************************************************************************)
(* utils/exec-bin-cmd                                                      *)
(***************************************************************************)
BinCmdMapItem(command, localArgs, globalArgs) ==
  [kind |-> "item", command |-> command, localArgs |-> localArgs, globalArgs |-> globalArgs]

\* a table entry that is null, and the lookup of a name the table does not hold
NoBinCmd(kind) == [kind |-> kind, command |-> "", localArgs |-> <<>>, globalArgs |-> <<>>]

BIN_CMD_MAPPING ==
  [npm |-> BinCmdMapItem("npm", <<"bin">>, <<"bin", "--global">>),
   yarnClassic |-> BinCmdMapItem("yarn", <<"bin">>, <<"global", "bin">>),
   yarnBerry |-> NoBinCmd("null"),
   pnpm |-> BinCmdMapItem("pnpm", <<"bin">>, <<"bin", "--global">>),
   bun |-> BinCmdMapItem("bun", <<"pm", "bin">>, <<"pm", "bin", "--global">>)]

DEFAULT_BIN_CMD == BIN_CMD_MAPPING.npm

\* the table entry of the running package manager
BinCmdOf(packageManager) ==
  IF ~packageManager.some THEN NoBinCmd("undefined")
  ELSE LET key == IF packageManager.name = "yarn"
                    THEN IF IsClassicVersion(packageManager.version)
                           THEN "yarnClassic" ELSE "yarnBerry"
                    ELSE packageManager.name
       IN IF key \in DOMAIN BIN_CMD_MAPPING THEN BIN_CMD_MAPPING[key] ELSE NoBinCmd("undefined")

\* isGlobalMode ? binCmd.globalArgs : binCmd.localArgs
BinArgs(bin, mode) == IF mode THEN bin.globalArgs ELSE bin.localArgs

\* path.extname(p)
path_extname(plat, p) ==
  LET seps == {i \in 1..Len(p) : IsPathSep(plat, CharAt(p, i))}
      base == IF seps = {} THEN p ELSE Slice(p, SetMax(seps) + 1, Len(p))
      dot == FindBack(base, ".", Len(base))
  IN IF dot <= 1 \/ base = ".." THEN "" ELSE Slice(base, dot, Len(base))

\* /\.[cm]?js$/.test(path.extname(npm_execpath))
ExecpathIsJS(plat, execpath) == path_extname(plat, execpath) \in {".js", ".cjs", ".mjs"}

\* process.execPath
ExecPath(plat) == IF plat = "win32" THEN "C:\\node\\node.exe" ELSE "/usr/bin/node"

NoCommand == [command |-> "", args |-> <<>>]

\* what execBinCmd does before it returns: it calls back with (null, null),
\* or it starts this child process, whose end will be reported to the callback
\* with these two command descriptions; calledBack counts the calls of the
\* callback made before the return
NoSpawn ==
  [spawns |-> FALSE, api |-> "", file |-> "", args |-> <<>>,
   readableCommand |-> NoCommand, executedCommand |-> NoCommand, calledBack |-> 1]
Spawn(api, file, argv, readableCommand, executedCommand) ==
  [spawns |-> TRUE, api |-> api, file |-> file, args |-> argv,
   readableCommand |-> readableCommand, executedCommand |-> executedCommand,
   calledBack |-> 0]

\* [command, ...args] of the npm_execpath branch
ExecpathLine(plat, execpath, binArgs) ==
  IF ExecpathIsJS(plat, execpath)
    THEN <<ExecPath(plat), execpath>> \o binArgs
    ELSE <<execpath>> \o binArgs

\* the npm_execpath branch reporting the executed line as the readable one
ExecFileOfLine_ReadableIsExecuted(line, command, binArgs) ==
  Spawn("execFile", Head(line), Tail(line),
        [command |-> Head(line), args |-> Tail(line)],
        [command |-> Head(line), args |-> Tail(line)])

\* child_process.execFile(command, args, ...) of the npm_execpath branch
ExecFileOfLine(line, command, binArgs) ==
  Spawn("execFile", Head(line), Tail(line),
        [command |-> command, args |-> binArgs],
        [command |-> Head(line), args |-> Tail(line)])

\* the branch that runs the command by its name: child_process.exec of the
\* joined command line on win32, child_process.execFile elsewhere
ExecByName(plat, command, binArgs) ==
  IF plat = "win32"
    THEN Spawn("exec", Join(<<command>> \o binArgs, " "), <<>>,
               [command |-> command, args |-> binArgs],
               [command |-> command, args |-> binArgs])
    ELSE Spawn("execFile", command, binArgs,
               [command |-> command, args |-> binArgs],
               [command |-> command, args |-> binArgs])

\* the body of execBinCmd without its early return
ExecBinCmdOf_NullFallsBack(binCmd, e, plat, mode) ==
  IF binCmd.kind = "item" /\ EnvTruthy(e, "npm_execpath")
    THEN ExecFileOfLine(ExecpathLine(plat, e["npm_execpath"], BinArgs(binCmd, mode)),
                        binCmd.command, BinArgs(binCmd, mode))
  ELSE IF binCmd.kind = "item"
    THEN ExecByName(plat, binCmd.command, BinArgs(binCmd, mode))
    ELSE ExecByName(plat, DEFAULT_BIN_CMD.command, BinArgs(DEFAULT_BIN_CMD, mode))

\* the body of execBinCmd going on after callback(null, null)
ExecBinCmdOf_NoReturn(binCmd, e, plat, mode) ==
  IF binCmd.kind = "null"
    THEN [ExecByName(plat, DEFAULT_BIN_CMD.command, BinArgs(DEFAULT_BIN_CMD, mode))
            EXCEPT !.calledBack = 1]
  ELSE IF binCmd.kind = "item" /\ EnvTruthy(e, "npm_execpath")
    THEN ExecFileOfLine(ExecpathLine(plat, e["npm_execpath"], BinArgs(binCmd, mode)),
                        binCmd.command, BinArgs(binCmd, mode))
  ELSE IF binCmd.kind = "item"
    THEN ExecByName(plat, binCmd.command, BinArgs(binCmd, mode))
    ELSE ExecByName(plat, DEFAULT_BIN_CMD.command, BinArgs(DEFAULT_BIN_CMD, mode))

\* the body of execBinCmd once binCmd is looked up
ExecBinCmdOf(binCmd, e, plat, mode) ==
  IF binCmd.kind = "null" THEN NoSpawn
  ELSE IF binCmd.kind = "item" /\ EnvTruthy(e, "npm_execpath")
    THEN ExecFileOfLine(ExecpathLine(plat, e["npm_execpath"], BinArgs(binCmd, mode)),
                        binCmd.command, BinArgs(binCmd, mode))
  ELSE IF binCmd.kind = "item"
    THEN ExecByName(plat, binCmd.command, BinArgs(binCmd, mode))
    ELSE ExecByName(plat, DEFAULT_BIN_CMD.command, BinArgs(DEFAULT_BIN_CMD, mode))

\* execBinCmd(isGlobalMode, callback) up to the point where it either calls
\* back with (null, null) or starts a child process
execBinCmd(e, plat, mode) == ExecBinCmdOf(BinCmdOf(usedPM(e)), e, plat, mode)

(***************************************************************************)
(* postinstall.ts: the script's main routine and validateUtils             *)
(***************************************************************************)
\* Object.keys(pkg?.bin ?? {})[0], pkg being the parsed package.json of the
\* script's directory, undefined when it cannot be read or parsed
FirstKey(bin) ==
  IF bin.t = "object" /\ Len(bin.keys) > 0 THEN JSString(bin.keys[1])
  ELSE IF bin.t = "array" /\ Len(bin.items) > 0 THEN JSString("0")
  ELSE IF bin.t = "string" /\ bin.v # "" THEN JSString("0")
  ELSE JSUndefined

BinOf(pkg) == IF pkg.threw THEN JSUndefined ELSE GetProperty(pkg.value, "bin")

FirstBinName(plat, filesys, dir) ==
  FirstKey(BinOf(ReadJSON(filesys, FsKey(plat, path_join(plat, <<dir, "package.json">>)))))

\* isGlobalMode ? ['bin', ''] : ['node_modules/.bin']
FinderDirnames_AlwaysLocal(mode) == <<"node_modules/.bin">>
FinderDirnames(mode) == IF mode THEN <<"bin", "">> ELSE <<"node_modules/.bin">>

\* [cwd].concat(binDir || []), binDir being the trimmed output of a bin query
\* that ended without an error
FinderRoots_IgnoreError(dir, result) ==
  LET binDir == IF result.isNull THEN "" ELSE Trim(result.stdout)
  IN IF binDir # "" THEN <<dir, binDir>> ELSE <<dir>>
FinderRoots(dir, result) ==
  LET binDir == IF result.isNull \/ result.error THEN "" ELSE Trim(result.stdout)
  IN IF binDir # "" THEN <<dir, binDir>> ELSE <<dir>>

\* the --type=<value> of one argument: /^--type\s*=(.+)$/.exec(arg)?.[1]?.trim()
TypeOfArg(arg) ==
  LET afterName == SkipWs(arg, Len("--type") + 1) IN
  IF StartsWith(arg, "--type") /\ CharAt(arg, afterName) = "=" /\ afterName < Len(arg)
    THEN Trim(Slice(arg, afterName + 1, Len(arg))) ELSE ""

\* process.argv.map(...).findLast(Boolean) ?? process.env['POSTINSTALL_TYPE']
postinstallType(argv, e) ==
  LET typed == {i \in 1..Len(argv) : TypeOfArg(argv[i]) # ""} IN
  IF typed # {} THEN JSString(TypeOfArg(argv[SetMax(typed)]))
  ELSE IF IsSet(e, "POSTINSTALL_TYPE") THEN JSString(e["POSTINSTALL_TYPE"])
  ELSE JSUndefined

\* `Start postinstall${postinstallType ? ` / ${postinstallType}` : ''}`
Titled(line, type) ==
  IF type.t = "string" /\ type.v # "" THEN line \o " / " \o type.v ELSE line

\* the arguments the script is started with
ScriptArgv == <<>>

\* what the bin query of a package manager may do: fail after printing
\* something, print the global bin directory, or print nothing
BinQueryOutcomes(plat) ==
  { [code |-> 1, stdout |-> SamplePath(plat, <<"tmp", "x">>) \o "\n", stderr |-> "Unknown command: bin\n"],
    [code |-> 0, stdout |-> SamplePath(plat, <<"g", "bin">>) \o "\n", stderr |-> ""],
    [code |-> 0, stdout |-> "", stderr |-> ""] }

StartLine == "Start postinstall"
FinishLine == "Finish postinstall"
ResolverErrorLine == "getInstallationPath() function threw this error:"

\* the script starts: it logs its first line and reads its package.json
Main_Start ==
  /\ pc = "loaded"
  /\ log' = Append(log, Titled(StartLine, postinstallType(ScriptArgv, env)))
  /\ binName' = FirstBinName(platform, fs, cwd)
  /\ pc' = "bin_query"
  /\ UNCHANGED <<watch, callbacks>>
  /\ UNCHANGED <<env, platform, cwd, isGlobalMode, loadError, fs, npmBin, spawned, args, ret,
                 isPnPEnabled, binCommandResult, expectedValues, emitted, written, thrown,
                 exitCode>>

\* await new Promise((resolve) => execBinCmd(isGlobalMode, ...)): execBinCmd
\* is called, the child process it started, if any, ends and the callback is
\* handed its outcome; the first call of the callback resolves the promise
Main_ExecBinCmd ==
  /\ pc = "bin_query"
  /\ \E call \in {execBinCmd(env, platform, isGlobalMode)} :
       IF ~call.spawns
         THEN /\ binCommandResult' = NoResult
              /\ callbacks' = callbacks + call.calledBack
              /\ UNCHANGED spawned
         ELSE \E outcome \in BinQueryOutcomes(platform) :
                /\ spawned' = Append(spawned, [api |-> call.api, file |-> call.file,
                                               args |-> call.args, code |-> outcome.code])
                /\ callbacks' = callbacks + call.calledBack + 1
                /\ binCommandResult' =
                     [isNull |-> FALSE, error |-> outcome.code # 0,
                      stdout |-> outcome.stdout, stderr |-> outcome.stderr,
                      readableCommand |-> call.readableCommand,
                      executedCommand |-> call.executedCommand]
  /\ pc' = "parse_expected"
  /\ UNCHANGED watch
  /\ UNCHANGED <<env, platform, cwd, isGlobalMode, loadError, fs, npmBin, args, ret,
                 isPnPEnabled, binName, expectedValues, emitted, written, log, thrown,
                 exitCode>>

\* JSON.parse(process.env['DEBUG_EXPECTED_VARS_JSON'] || '{}')
Main_ParseExpectedValues ==
  /\ pc = "parse_expected"
  /\ \E parsed \in {JSON_parse(IF EnvTruthy(env, "DEBUG_EXPECTED_VARS_JSON")
                                  THEN env["DEBUG_EXPECTED_VARS_JSON"] ELSE "{}")} :
        IF parsed.threw
          THEN /\ thrown' = "SyntaxError"
               /\ pc' = "threw"
               /\ UNCHANGED expectedValues
          ELSE /\ expectedValues' = parsed.value
               /\ pc' = "emit"
               /\ UNCHANGED thrown
  /\ UNCHANGED <<watch, callbacks>>
  /\ UNCHANGED <<env, platform, cwd, isGlobalMode, loadError, fs, npmBin, spawned, args, ret,
                 isPnPEnabled, binName, binCommandResult, emitted, written, log, exitCode>>

\* the value of foundBinFiles, null when there is no binName
FoundBinFiles(plat, filesys, call) ==
  IF call.binName # ""
    THEN [isNull |-> FALSE,
          files |-> findInstalledExecutables(plat, filesys, call.cwdList, call.dirnameList,
                                             call.binName)]
    ELSE [isNull |-> TRUE, files |-> <<>>]

\* const output: OutputData = { ... }
OutputData(type, name, dir, e, mode, result, found) ==
  [postinstallType |-> IF type.t = "string" THEN type ELSE JSNull,
   binName |-> IF name.t = "string" THEN name ELSE JSNull,
   actual |-> [cwd |-> dir, env |-> e, isGlobalMode |-> mode, binCommandResult |-> result,
               foundBinFiles |-> found]]

\* the writes of one record without the append to the JSON-lines file
RecordWrites_JsonOnly(e) ==
  IF EnvTruthy(e, "DEBUG_DATA_JSON_PATH")
    THEN <<[op |-> "writeFile", path |-> e["DEBUG_DATA_JSON_PATH"]]>> ELSE <<>>

\* the writes of one record: writeFile(DEBUG_DATA_JSON_PATH), then
\* appendFile(DEBUG_DATA_JSON_LINES_PATH)
RecordWrites(e) ==
  (IF EnvTruthy(e, "DEBUG_DATA_JSON_PATH")
     THEN <<[op |-> "writeFile", path |-> e["DEBUG_DATA_JSON_PATH"]]>> ELSE <<>>)
  \o (IF EnvTruthy(e, "DEBUG_DATA_JSON_LINES_PATH")
        THEN <<[op |-> "appendFile", path |-> e["DEBUG_DATA_JSON_LINES_PATH"]]>> ELSE <<>>)

\* the block that builds the debug record and writes it
Main_EmitDebugData ==
  /\ pc = "emit"
  /\ IF EnvTruthy(env, "DEBUG_DATA_JSON_PATH") \/ EnvTruthy(env, "DEBUG_DATA_JSON_LINES_PATH")
       THEN \E call \in {[cwdList |-> FinderRoots(cwd, binCommandResult),
                          dirnameList |-> FinderDirnames(isGlobalMode),
                          binName |-> IF binName.t = "string" THEN binName.v ELSE ""]} :
              /\ args' = IF call.binName # "" THEN call ELSE args
              /\ emitted' = Append(emitted,
                                   OutputData(postinstallType(ScriptArgv, env), binName, cwd, env,
                                              isGlobalMode, binCommandResult,
                                              FoundBinFiles(platform, fs, call)))
              /\ written' = written \o RecordWrites(env)
       ELSE UNCHANGED <<args, emitted, written>>
  /\ pc' = "validate"
  /\ UNCHANGED <<watch, callbacks>>
  /\ UNCHANGED <<env, platform, cwd, isGlobalMode, loadError, fs, npmBin, spawned, ret,
                 isPnPEnabled, binName, binCommandResult, expectedValues, log, thrown, exitCode>>

\* what validateUtils does with the outcome of getInstallationPath()
AfterResolution_Rethrows(result, expectedInstallationPath) ==
  /\ ret' = result
  /\ UNCHANGED <<written, log>>
  /\ IF result.threw \/ expectedInstallationPath # result.value
       THEN /\ thrown' = "getInstallationPath() function returned incorrect installation path:"
            /\ pc' = "threw"
       ELSE /\ pc' = "finish"
            /\ UNCHANGED thrown
AfterResolution(result, expectedInstallationPath) ==
  /\ ret' = result
  /\ written' = IF EnvTruthy(env, "GITHUB_STEP_SUMMARY")
                  THEN Append(written, [op |-> "appendFile", path |-> env["GITHUB_STEP_SUMMARY"]])
                  ELSE written
  /\ IF result.threw
       THEN /\ log' = Append(log, ResolverErrorLine)
            /\ pc' = "finish"
            /\ UNCHANGED thrown
       ELSE /\ UNCHANGED log
            /\ IF expectedInstallationPath # result.value
                 THEN /\ thrown' = "getInstallationPath() function returned incorrect installation path:"
                      /\ pc' = "threw"
                 ELSE /\ pc' = "finish"
                      /\ UNCHANGED thrown

\* await validateUtils({ isPnPEnabled: expectedValues['expectedPnPEnabled'],
\*                       localPrefix: expectedValues['expectedLocalPrefix'] })
Main_ValidateUtils ==
  /\ pc = "validate"
  /\ \E expectedPnPEnabled \in {GetProperty(expectedValues, "expectedPnPEnabled")},
        localPrefix \in {GetProperty(expectedValues, "expectedLocalPrefix")} :
        IF expectedValues.t = "null"
          THEN /\ thrown' = "TypeError"
               /\ pc' = "threw"
               /\ UNCHANGED <<npmBin, spawned, ret, written, log>>
        ELSE IF expectedPnPEnabled.t = "boolean" /\ isPnPEnabled # expectedPnPEnabled.v
          THEN /\ thrown' = "Plug'n'Play is not "
                              \o (IF expectedPnPEnabled.v THEN "enabled" ELSE "disabled")
               /\ pc' = "threw"
               /\ UNCHANGED <<npmBin, spawned, ret, written, log>>
        ELSE IF localPrefix.t = "string"
          THEN \E expectedInstallationPath \in
                    {path_join(platform, <<localPrefix.v, "node_modules/.bin">>)} :
                  IF ~isGlobalMode
                    THEN \E result \in {LocalInstallationPath(env, platform, cwd, fs)} :
                           /\ AfterResolution(result, expectedInstallationPath)
                           /\ UNCHANGED <<npmBin, spawned>>
                    ELSE \E outcome \in NpmBinOutcomes(platform) :
                           \E result \in {GlobalInstallationPath(env, platform, cwd, outcome)} :
                             /\ npmBin' = outcome
                             /\ spawned' = Append(spawned, [api |-> "exec", file |-> "npm bin",
                                                            args |-> <<>>,
                                                            code |-> outcome.code])
                             /\ AfterResolution(result, expectedInstallationPath)
        ELSE /\ pc' = "finish"
             /\ UNCHANGED <<npmBin, spawned, ret, written, log, thrown>>
  /\ UNCHANGED <<watch, callbacks>>
  /\ UNCHANGED <<env, platform, cwd, isGlobalMode, loadError, fs, args, isPnPEnabled, binName,
                 binCommandResult, expectedValues, emitted, exitCode>>

\* the last statement of the routine
Main_Finish ==
  /\ pc = "finish"
  /\ log' = Append(log, Titled(FinishLine, postinstallType(ScriptArgv, env)))
  /\ pc' = "exited"
  /\ UNCHANGED <<watch, callbacks>>
  /\ UNCHANGED <<env, platform, cwd, isGlobalMode, loadError, fs, npmBin, spawned, args, ret,
                 isPnPEnabled, binName, binCommandResult, expectedValues, emitted, written,
                 thrown, exitCode>>

\* .catch((error) => { if (!process.exitCode) process.exitCode = 1; console.error(error) })
Main_Catch_KeepsExitCode ==
  /\ pc = "threw"
  /\ log' = Append(log, thrown)
  /\ pc' = "exited"
  /\ UNCHANGED <<watch, callbacks>>
  /\ UNCHANGED <<env, platform, cwd, isGlobalMode, loadError, fs, npmBin, spawned, args, ret,
                 isPnPEnabled, binName, binCommandResult, expectedValues, emitted, written,
                 thrown, exitCode>>
Main_Catch ==
  /\ pc = "threw"
  /\ exitCode' = IF exitCode = 0 THEN 1 ELSE exitCode
  /\ log' = Append(log, thrown)
  /\ pc' = "exited"
  /\ UNCHANGED <<watch, callbacks>>
  /\ UNCHANGED <<env, platform, cwd, isGlobalMode, loadError, fs, npmBin, spawned, args, ret,
                 isPnPEnabled, binName, binCommandResult, expectedValues, emitted, written,
                 thrown>>

(***************************************************************************)
(* Runs of the postinstall script: the package foo is installed in         *)
(* <root>w/p; the package manager, the mode markers, npm_execpath and the  *)
(* debug variables vary.                                                   *)
(***************************************************************************)
MainUserAgents ==
  { "npm/8.19.2 node/v18.12.0 linux x64",
    "yarn/1.22.19 npm/? node/v18.12.0 linux x64",
    "yarn/3.6.0 npm/? node/v18.12.0 linux x64",
    "yarn/10.2.0 npm/? node/v18.12.0 linux x64",
    "pnpm/8.6.0 npm/? node/v18.12.0 linux x64",
    "bun/1.0.0 npm/? node/v18.12.0 linux x64",
    "cnpm/9.2.0 npm/? node/v18.12.0 linux x64",
    NoVar }

Execpaths(plat) ==
  {NoVar, SamplePath(plat, <<"opt", "npm-cli.js">>), SamplePath(plat, <<"opt", "yarn.cjs">>),
   SamplePath(plat, <<"opt", "pnpm">>)}

\* a JSON text naming the directory w as the expected local prefix
ExpectedLocalPrefixText(plat) ==
  IF plat = "win32" THEN "{\"expectedLocalPrefix\":\"C:/w\"}" ELSE "{\"expectedLocalPrefix\":\"/w\"}"

\* DEBUG_EXPECTED_VARS_JSON together with what it is checked against
Expectations(plat) ==
  {[json |-> j, pnp |-> FALSE, lp |-> SamplePath(plat, <<"w">>), summary |-> NoVar] :
     j \in {NoVar, "{oops", "null"}}
  \cup {[json |-> "{\"expectedPnPEnabled\":true}", pnp |-> b,
         lp |-> SamplePath(plat, <<"w">>), summary |-> NoVar] : b \in BOOLEAN}
  \cup {[json |-> ExpectedLocalPrefixText(plat), pnp |-> FALSE, lp |-> l, summary |-> m] :
          l \in {NoVar, SamplePath(plat, <<"w">>)}, m \in {NoVar, "summary.md"}}

DebugDataPaths ==
  { [json |-> NoVar, lines |-> NoVar],
    [json |-> "data.json", lines |-> NoVar],
    [json |-> NoVar, lines |-> "data.jsonl"],
    [json |-> "data.json", lines |-> "data.jsonl"] }

MainEnv(ua, g, x, ex, d) ==
  MkEnv([npm_config_user_agent |-> ua, npm_config_global |-> g, npm_execpath |-> x,
         npm_config_local_prefix |-> ex.lp, DEBUG_EXPECTED_VARS_JSON |-> ex.json,
         GITHUB_STEP_SUMMARY |-> ex.summary, DEBUG_DATA_JSON_PATH |-> d.json,
         DEBUG_DATA_JSON_LINES_PATH |-> d.lines])

MainEnvs(plat) ==
  { MainEnv(ua, g, x, ex, d) :
      ua \in MainUserAgents, g \in {NoVar, "true"}, x \in Execpaths(plat),
      ex \in Expectations(plat), d \in DebugDataPaths }

\* the installed package and the bin directories around it
MainFileSystem(plat) ==
  LET pkg == SamplePath(plat, <<"w", "p", "package.json">>)
      localBin == SamplePath(plat, <<"w", "p", "node_modules", ".bin">>)
      globalBin == SamplePath(plat, <<"g", "bin">>)
      globalDir == SamplePath(plat, <<"g">>)
  IN [files |-> [f \in {pkg} |-> "{\"name\":\"foo\",\"bin\":{\"foo\":\"cli.js\"}}"],
      dirs |-> [d \in {localBin, globalBin, globalDir} |->
                  IF d = localBin THEN <<"foo", "foo.cmd", "foobar">>
                  ELSE IF d = globalBin THEN <<"foo">>
                  ELSE <<"bin", "foo.cmd">>]]

Init ==
  /\ pc = "load"
  /\ platform \in Platforms
  /\ env \in MainEnvs(platform)
  /\ cwd = SamplePath(platform, <<"w", "p">>)
  /\ fs = MainFileSystem(platform)
  /\ isPnPEnabled \in BOOLEAN
  /\ \E ex \in Expectations(platform) :
       /\ ex.pnp = isPnPEnabled
       /\ IF ex.json = NoVar THEN ~IsSet(env, "DEBUG_EXPECTED_VARS_JSON")
                             ELSE EnvEquals(env, "DEBUG_EXPECTED_VARS_JSON", ex.json)
  /\ isGlobalMode = FALSE
  /\ loadError = FALSE
  /\ npmBin = NotRun
  /\ spawned = <<>>
  /\ args = NoArgs
  /\ ret = NoRet
  /\ binName = JSUndefined
  /\ binCommandResult = NoResult
  /\ expectedValues = JSUndefined
  /\ emitted = <<>>
  /\ written = <<>>
  /\ log = <<>>
  /\ thrown = ""
  /\ exitCode = 0
  /\ watch = NoWatch
  /\ callbacks = 0

Next ==
  \/ LoadIsGlobalMode
  \/ Main_Start
  \/ Main_ExecBinCmd
  \/ Main_ParseExpectedValues
  \/ Main_EmitDebugData
  \/ Main_ValidateUtils
  \/ Main_Finish
  \/ Main_Catch

Spec == Init /\ [][Next]_vars

(***************************************************************************)
(* Claims about a run of the postinstall script (checked under Spec).      *)
(***************************************************************************)
\* the arguments of the bin query of each command, by mode
LocalArgsOf == [npm |-> <<"bin">>, yarn |-> <<"bin">>, pnpm |-> <<"bin">>, bun |-> <<"pm", "bin">>]
GlobalArgsOf ==
  [npm |-> <<"bin", "--global">>, yarn |-> <<"global", "bin">>, pnpm |-> <<"bin", "--global">>,
   bun |-> <<"pm", "bin", "--global">>]

\* the bin query that was run took the arguments of this mode
BinQueryObserves(mode) ==
  ~binCommandResult.isNull =>
    /\ binCommandResult.readableCommand.command \in DOMAIN LocalArgsOf
    /\ binCommandResult.readableCommand.args =
         (IF mode THEN GlobalArgsOf ELSE LocalArgsOf)[binCommandResult.readableCommand.command]

\* getInstallationPath, if it was called, took the branch of this mode: the
\* global branch always runs `npm bin`, the local branch never does
ResolverCalled == ret # NoRet
ResolverObserves(mode) ==
  IF ResolverCalled THEN npmBin.ran <=> mode ELSE ~npmBin.ran

\* the finder, if it was called, was given the suffixes of this mode
FinderCalled == args # NoArgs
FinderObserves(mode) ==
  FinderCalled => args.dirnameList = (IF mode THEN <<"bin", "">> ELSE <<"node_modules/.bin">>)

\* every emitted record carries this mode
RecordObserves(mode) == \A i \in 1..Len(emitted) : emitted[i].actual.isGlobalMode = mode

\* C7: the install mode is computed once, when the module is loaded, and no
\* later step changes it; the arguments of the bin query, the branch taken by
\* getInstallationPath, the suffixes given to the finder and the isGlobalMode
\* field of the emitted record all agree with the value computed at load.
C7_ModeComputedOnceAndObserved ==
  /\ [](pc \notin {"load", "load_threw"} =>
          /\ isGlobalMode = isGlobalModeFn(env).value
          /\ BinQueryObserves(isGlobalModeFn(env).value)
          /\ ResolverObserves(isGlobalModeFn(env).value)
          /\ FinderObserves(isGlobalModeFn(env).value)
          /\ RecordObserves(isGlobalModeFn(env).value))
  /\ [][/\ pc # "load" => (isGlobalMode' = isGlobalMode /\ loadError' = loadError)
        /\ pc' # "load"
        /\ env' = env]_vars

\* a finished run in global mode in which the bin query, getInstallationPath
\* and the finder were all used and one record was emitted
C7_Witness ==
  /\ pc = "exited"
  /\ isGlobalMode
  /\ ~binCommandResult.isNull
  /\ binCommandResult.readableCommand.args = <<"global", "bin">>
  /\ ResolverCalled /\ npmBin.ran
  /\ FinderCalled /\ args.dirnameList = <<"bin", "">>
  /\ Len(emitted) = 1 /\ emitted[1].actual.isGlobalMode

(***************************************************************************)
(* Claims about the directories the postinstall script searches            *)
(***************************************************************************)
\* the root of the file system an absolute path lies in
RootOf(p) == IF platform = "win32" THEN Slice(p, 1, 3) ELSE "/"

\* the directories on the way from an absolute path up to the root
UpwardDirs(p) ==
  {p, RootOf(p)}
  \cup {Slice(p, 1, i - 1) :
          i \in {k \in (Len(RootOf(p)) + 1)..Len(p) : IsPathSep(platform, CharAt(p, k))}}

\* a directory with a relative path below it
Below(d, suffix) ==
  LET sep == IF platform = "win32" THEN "\\" ELSE "/"
      tail == IF platform = "win32"
                THEN Join(Split(suffix, "/"), "\\") ELSE suffix
  IN IF d = RootOf(d) THEN d \o tail ELSE d \o sep \o tail

\* the directories the finder was asked to search
SearchedByScript ==
  LET bindirs == BinDirs(platform, args.cwdList, args.dirnameList)
  IN {bindirs[k] : k \in 1..Len(bindirs)}

\* C13: the directories the postinstall script searches contain, for every
\* directory from the working directory up to the root of the file system,
\* that directory's node_modules/.bin in local mode, and in global mode both
\* its bin and the directory itself; the walk from each root handed to the
\* finder ends at the root of the file system.
C13_CandidatesCoverAncestorChain ==
  FinderCalled =>
    LET searched == SearchedByScript IN
    /\ args.cwdList[1] = cwd
    /\ \A d \in UpwardDirs(cwd) :
         IF isGlobalMode
           THEN Below(d, "bin") \in searched /\ d \in searched
           ELSE Below(d, "node_modules/.bin") \in searched
    /\ \A i \in 1..Len(args.cwdList) :
         LET chain == AncestorChain(platform, args.cwdList[i])
         IN /\ chain[1] = args.cwdList[i]
            /\ chain[Len(chain)] = RootOf(args.cwdList[i])
            /\ {chain[k] : k \in 1..Len(chain)} = UpwardDirs(args.cwdList[i])

\* a run in global mode on win32 whose finder walked up from the working
\* directory and from the directory the bin query printed
C13_Witness ==
  /\ FinderCalled
  /\ platform = "win32"
  /\ isGlobalMode
  /\ Len(args.cwdList) = 2
  /\ {"C:\\", "C:\\bin", "C:\\w\\p\\bin", "C:\\w"} \subseteq SearchedByScript

(***************************************************************************)
(* Claims about the bin query's result                                     *)
(***************************************************************************)
\* the bin query's child process ended with a failure
BinQuerySpawned == Len(spawned) = (IF npmBin.ran THEN 2 ELSE 1)

BinQueryFailed == BinQuerySpawned /\ spawned[1].code # 0

BinQueryRan == pc \notin {"load", "load_threw", "loaded", "bin_query"}

\* the directories on the way from what the bin query printed up to the root
PrintedDirs ==
  IF Trim(binCommandResult.stdout) = "" THEN {} ELSE UpwardDirs(Trim(binCommandResult.stdout))

\* C14: when the bin query's result carries an error the finder is called
\* with the working directory as its only root, and neither the directory the
\* failed command printed nor anything reached from it is searched; the error
\* of the result, and of the result in the emitted record, is set exactly
\* when the child process failed.
C14_FailedBinQueryIsNotSearched ==
  BinQueryRan =>
    /\ binCommandResult.error <=> (~binCommandResult.isNull /\ BinQueryFailed)
    /\ binCommandResult.isNull <=> ~BinQuerySpawned
    /\ \A i \in 1..Len(emitted) :
         emitted[i].actual.binCommandResult.error <=> BinQueryFailed
    /\ (FinderCalled /\ binCommandResult.error) =>
         /\ args.cwdList = <<cwd>>
         /\ \A d \in PrintedDirs \ UpwardDirs(cwd) :
              \A suffix \in {"bin", "node_modules/.bin"} :
                d \notin SearchedByScript /\ Below(d, suffix) \notin SearchedByScript

\* a run whose bin query failed after printing a directory, and whose finder
\* searched from the working directory alone
C14_Witness ==
  /\ FinderCalled
  /\ BinQueryFailed
  /\ binCommandResult.error
  /\ Trim(binCommandResult.stdout) = "/tmp/x"
  /\ Len(emitted) = 1
  /\ emitted[1].actual.binCommandResult.error
  /\ args.cwdList = <<"/w/p">>

(***************************************************************************)
(* run-install: watchNpmExecutables                                        *)
(***************************************************************************)
\* path.basename(p): the last segment of p, trailing separators dropped
path_basename(plat, p) ==
  LET inked == {i \in 1..Len(p) : ~IsPathSep(plat, CharAt(p, i))}
  IN IF inked = {} THEN ""
     ELSE LET last == SetMax(inked)
              seps == {i \in 1..last : IsPathSep(plat, CharAt(p, i))}
          IN Slice(p, (IF seps = {} THEN 0 ELSE SetMax(seps)) + 1, last)

\* the 'add' listener's test of a reported path
IsValidDir(plat, isGlobal, dirpath) ==
  \/ isGlobal
  \/ /\ path_basename(plat, path_dirname(plat, dirpath)) = "node_modules"
     /\ path_basename(plat, dirpath) = ".bin"

IsWatchedExecutable(plat, isGlobal, nameOfBin, filepath) ==
  /\ IsValidDir(plat, isGlobal, path_dirname(plat, filepath))
  /\ IsBinFile(path_basename(plat, filepath), nameOfBin)

\* the files an install may create below the watched directory
AddedPaths ==
  {"/r/node_modules/.bin/foo", "/r/node_modules/.bin/foo.cmd", "/r/bin/foo.cmd",
   "/r/node_modules/.bin/foobar", "/r/node_modules/.bin/x/foo"}

\* what fs.stat(filepath) may give when the captured paths are re-checked
StatOutcomes == {"file", "directory", "ENOENT", "EACCES"}

\* the watcher emits 'ready': the promise of the first await is resolved and
\* the routine goes on to call installFn()
Watcher_Ready ==
  /\ pc = "watch_ready"
  /\ watch.watcher = "starting"
  /\ watch' = [watch EXCEPT !.watcher = "ready", !.install = "running"]
  /\ pc' = "watch_running"
  /\ UNCHANGED <<env, platform, cwd, isGlobalMode, loadError, fs, npmBin, spawned, args, ret,
                 mainVars>>

\* the watcher emits 'error': the first listener keeps the error, the second
\* one, registered for the first await and never removed, closes the watcher
\* and rejects that await's promise, which has an effect only while it is
\* pending
Watcher_Error ==
  /\ watch.watcher \in {"starting", "ready"}
  /\ watch' = [watch EXCEPT !.watchError = TRUE, !.watcher = "closed"]
  /\ IF pc = "watch_ready"
       THEN pc' = "watch_done" /\ ret' = Threw
       ELSE UNCHANGED <<pc, ret>>
  /\ UNCHANGED <<env, platform, cwd, isGlobalMode, loadError, fs, npmBin, spawned, args,
                 mainVars>>

\* the watcher emits 'add' for a file created after the initial scan
Watcher_Add ==
  /\ watch.watcher = "ready"
  /\ \E filepath \in AddedPaths \ watch.added :
       watch' = [watch EXCEPT
                   !.added = @ \cup {filepath},
                   !.captured =
                     IF IsWatchedExecutable(platform, args.isGlobal, args.binName, filepath)
                       THEN Append(@, filepath) ELSE @]
  /\ UNCHANGED <<pc, env, platform, cwd, isGlobalMode, loadError, fs, npmBin, spawned, args,
                 ret, mainVars>>

\* installFn() is fulfilled: the watcher is closed, and the kept watcher error,
\* if any, is thrown
Install_Fulfilled ==
  /\ pc = "watch_running"
  /\ watch.install = "running"
  /\ watch' = [watch EXCEPT !.install = "fulfilled", !.watcher = "closed"]
  /\ IF watch.watchError
       THEN pc' = "watch_done" /\ ret' = Threw
       ELSE pc' = "watch_collect" /\ UNCHANGED ret
  /\ UNCHANGED <<env, platform, cwd, isGlobalMode, loadError, fs, npmBin, spawned, args,
                 mainVars>>

\* installFn() is rejected: the watcher is closed and the error is thrown again
Install_Rejected ==
  /\ pc = "watch_running"
  /\ watch.install = "running"
  /\ watch' = [watch EXCEPT !.install = "rejected", !.watcher = "closed"]
  /\ pc' = "watch_done"
  /\ ret' = Threw
  /\ UNCHANGED <<env, platform, cwd, isGlobalMode, loadError, fs, npmBin, spawned, args,
                 mainVars>>

\* the captured paths whose fs.stat outcome is a regular file, in the order of
\* their capture
StillFiles(captured, stat) ==
  LET kept == SortedSeq({i \in 1..Len(captured) : stat[i] = "file"})
  IN [k \in 1..Len(kept) |-> captured[kept[k]]]

\* the return without the re-check of the captured paths
Watch_Collect_NoRecheck ==
  /\ pc = "watch_collect"
  /\ \E stat \in [1..Len(watch.captured) -> StatOutcomes] :
       /\ watch' = [watch EXCEPT !.stats = stat]
       /\ ret' = Returned(watch.captured)
  /\ pc' = "watch_done"
  /\ UNCHANGED <<env, platform, cwd, isGlobalMode, loadError, fs, npmBin, spawned, args,
                 mainVars>>

\* the captured paths are re-checked with fs.stat and the remaining ones returned
Watch_Collect ==
  /\ pc = "watch_collect"
  /\ \E stat \in [1..Len(watch.captured) -> StatOutcomes] :
       /\ watch' = [watch EXCEPT !.stats = stat]
       /\ ret' = IF \E i \in 1..Len(watch.captured) : stat[i] = "EACCES"
                   THEN Threw
                   ELSE Returned(StillFiles(watch.captured, stat))
  /\ pc' = "watch_done"
  /\ UNCHANGED <<env, platform, cwd, isGlobalMode, loadError, fs, npmBin, spawned, args,
                 mainVars>>

\* watchNpmExecutables({ rootDirpath, binName, isGlobal }, installFn) was
\* called and has created its watcher
InitWatch ==
  /\ pc = "watch_ready"
  /\ platform = "linux"
  /\ env = <<>>
  /\ cwd = "/r"
  /\ fs = EmptyFs
  /\ args \in {[rootDirpath |-> "/r", binName |-> "foo", isGlobal |-> g] : g \in BOOLEAN}
  /\ isGlobalMode = FALSE
  /\ loadError = FALSE
  /\ npmBin = NotRun
  /\ spawned = <<>>
  /\ ret = NoRet
  /\ isPnPEnabled = FALSE
  /\ binName = JSUndefined
  /\ binCommandResult = NoResult
  /\ expectedValues = JSUndefined
  /\ emitted = <<>>
  /\ written = <<>>
  /\ log = <<>>
  /\ thrown = ""
  /\ exitCode = 0
  /\ callbacks = 0
  /\ watch = [NoWatch EXCEPT !.watcher = "starting"]

NextWatch ==
  \/ Watcher_Ready
  \/ Watcher_Error
  \/ Watcher_Add
  \/ Install_Fulfilled
  \/ Install_Rejected
  \/ Watch_Collect

SpecWatch == InitWatch /\ [][NextWatch]_vars

(***************************************************************************)
(* Claims about watchNpmExecutables                                        *)
(***************************************************************************)
InstallSettled == watch.install \in {"fulfilled", "rejected"}

\* C15: the install operation is not started before the watcher signalled
\* 'ready'; the watcher is not closed while the install operation is still
\* running, also when the watcher emits 'error' in the meantime; once the
\* install operation has settled the watcher is closed.
C15_WatcherBracketsInstall ==
  /\ watch.watcher = "starting" => watch.install = "not_started"
  /\ watch.install = "running" => watch.watcher = "ready"
  /\ InstallSettled => watch.watcher = "closed"

\* the re-check of the captured paths has been made
Rechecked == pc = "watch_done" /\ watch.install = "fulfilled" /\ ~watch.watchError

\* what fs.stat gave for a captured path at the re-check
StatOf(filepath) ==
  watch.stats[CHOOSE i \in 1..Len(watch.captured) : watch.captured[i] = filepath]

\* the path names an executable of binName: its last segment is binName or
\* starts with binName followed by a dot
NamedAfterBin(filepath) ==
  LET segs == Split(filepath, "/")
      name == segs[Len(segs)]
  IN name = args.binName \/ StartsWith(name, args.binName \o ".")

\* the path lies directly inside a node_modules/.bin directory
DirectlyInLocalBin(filepath) ==
  LET segs == Split(filepath, "/")
  IN /\ Len(segs) >= 3
     /\ segs[Len(segs) - 1] = ".bin"
     /\ segs[Len(segs) - 2] = "node_modules"

\* C27: watchNpmExecutables returns only paths that were reported as added
\* while the watcher was active, that are named after binName, that in local
\* mode lie directly inside a node_modules/.bin directory and that are still
\* a regular file at the re-check made after the watcher is closed; a
\* captured path that is gone at the re-check is left out and raises no
\* error.
C27_ReturnedPathsAreLiveExecutables ==
  Rechecked =>
    /\ ~ret.threw =>
          \A filepath \in ReturnedPaths :
            /\ filepath \in watch.added
            /\ NamedAfterBin(filepath)
            /\ ~args.isGlobal => DirectlyInLocalBin(filepath)
            /\ StatOf(filepath) = "file"
    /\ (\A i \in 1..Len(watch.stats) : watch.stats[i] \in {"file", "directory", "ENOENT"})
          => ~ret.threw

\* a local install that created foo and foo.cmd in node_modules/.bin, of
\* which foo was gone again at the re-check
C27_Witness ==
  /\ Rechecked
  /\ ~args.isGlobal
  /\ watch.captured = <<"/r/node_modules/.bin/foo", "/r/node_modules/.bin/foo.cmd">>
  /\ watch.stats = <<"ENOENT", "file">>
  /\ "/r/node_modules/.bin/x/foo" \in watch.added
  /\ ret = Returned(<<"/r/node_modules/.bin/foo.cmd">>)

(***************************************************************************)
(* workflows/utils/env-diff                                                *)
(***************************************************************************)
\* path.delimiter
PathDelimiter(plat) == IF plat = "win32" THEN ";" ELSE ":"

\* /^PATH$/i.test(key)
IsPathKey(key) == ToLowerCase(key) = "path"

\* s.endsWith(p)
EndsWith(s, p) == Len(p) <= Len(s) /\ Slice(s, Len(s) - Len(p) + 1, Len(s)) = p

\* e[key] of an object whose values are JavaScript values
Lookup(e, key) == IF key \in DOMAIN e THEN e[key] ELSE JSUndefined

\* value ?? undefined
OrUndefined(value) == IF value.t = "null" THEN JSUndefined ELSE value

\* util.inspect of a short string without quotes in it
InspectString(s) == "'" \o s \o "'"

\* maxStringLength when the options of the caller are not overwritten
NotOverwritten == -1

\* the PATH branch of genValueInspectFn: the option it overwrites and its comments
PathComments(plat, value, origValue) ==
  LET entries == Split(value, PathDelimiter(plat))
      pathList == [i \in 1..Len(entries) |-> "- " \o entries[i]]
      omit == /\ origValue.t = "string"
              /\ Len(origValue.v) < Len(value)
              /\ EndsWith(value, origValue.v)
      origPathLength == Len(Split(origValue.v, PathDelimiter(plat)))
      kept == IF Len(pathList) > origPathLength THEN Len(pathList) - origPathLength ELSE 0
  IN IF omit
       THEN [maxStringLength |-> Len(value) - Len(origValue.v),
             commentList |-> <<"PATH List:">> \o SubSeq(pathList, 1, kept)
                               \o <<"... " \o ToString(origPathLength) \o " more paths">>]
       ELSE [maxStringLength |-> NotOverwritten,
             commentList |-> <<"PATH List:">> \o pathList]

\* one entry of compareList
ComparedTo(value, name, prefix) ==
  IF prefix.t = "string" /\ StartsWith(value, prefix.v)
    THEN <<"  " \o name \o (IF value # prefix.v
                               THEN " + " \o InspectString(Slice(value, Len(prefix.v) + 1, Len(value)))
                               ELSE "")>>
    ELSE <<>>

\* the other branch: the prefixes the value starts with
PrefixComments(prefixRecord, value) ==
  LET compareList == Flatten([i \in 1..Len(prefixRecord) |->
                                ComparedTo(value, prefixRecord[i].name, prefixRecord[i].prefix)])
  IN [maxStringLength |-> NotOverwritten,
      commentList |-> IF compareList # <<>> THEN <<"Equal to this:">> \o compareList ELSE <<>>]

genValueInspectFn(plat, prefixRecord, key, value, origValue) ==
  IF IsPathKey(key) /\ value.t = "string" THEN PathComments(plat, value.v, origValue)
  ELSE IF value.t = "string" THEN PrefixComments(prefixRecord, value.v)
  ELSE [maxStringLength |-> NotOverwritten, commentList |-> <<>>]

\* Object.assign(cwd ? { 'process.cwd()': cwd } : {}, prefixesToCompareRecord)
PrefixRecord(dir, prefixesToCompareRecord) ==
  (IF dir # "" THEN <<[name |-> "process.cwd()", prefix |-> JSString(dir)]>> ELSE <<>>)
  \o prefixesToCompareRecord

\* the entries envDiff(env1, env2) keeps
envDiff_NoFilter(env1, env2) == [key \in DOMAIN env2 |-> OrUndefined(env2[key])]
envDiff(env1, env2) ==
  [key \in {k \in DOMAIN env2 : Lookup(env1, k) # OrUndefined(env2[k])}
     |-> OrUndefined(env2[key])]

\* customInspect: what each kept entry is rendered with
customInspect(plat, prefixRecord, env1, entries) ==
  [key \in DOMAIN entries |->
     genValueInspectFn(plat, prefixRecord, key, entries[key], Lookup(env1, key))]

(***************************************************************************)
(* Environment-diff scenarios: one call of envDiff, then util.inspect of   *)
(* its result.                                                             *)
(***************************************************************************)
\* an object of JavaScript values: the names whose choice is not NoVar
MkObject(choice) ==
  [k \in {n \in DOMAIN choice : choice[n] # NoVar} |->
     IF choice[k] = "<null>" THEN JSNull ELSE JSString(choice[k])]

PathKeys == {"PATH", "Path"}

BaselinePaths == {NoVar, "/usr/bin", "/usr/bin:/bin", "/bin"}

CurrentPaths ==
  {NoVar, "<null>", "/usr/bin", "/opt/foo/bin:/usr/bin", "/a:/b:/usr/bin:/bin"}

BaselineValues == {NoVar, "/w/p"}

CurrentValues == {NoVar, "<null>", "/w/p", "/w/p/x"}

Snapshot(pathKey, pathValue, otherValue) ==
  MkObject((pathKey :> pathValue) @@ ("INIT_CWD" :> otherValue))

EnvDiff ==
  /\ pc = "diff"
  /\ ret' = Returned([entries |-> envDiff(args.env1, args.env2), inspected |-> <<>>])
  /\ pc' = "diffed"
  /\ UNCHANGED <<env, platform, cwd, isGlobalMode, loadError, fs, npmBin, spawned, args,
                 mainVars, watch>>

InspectEnvDiff ==
  /\ pc = "diffed"
  /\ ret' = Returned([entries |-> ret.value.entries,
                      inspected |->
                        customInspect(platform, PrefixRecord(args.cwd, args.prefixesToCompareRecord),
                                      args.env1, ret.value.entries)])
  /\ pc' = "inspected"
  /\ UNCHANGED <<env, platform, cwd, isGlobalMode, loadError, fs, npmBin, spawned, args,
                 mainVars, watch>>

InitEnvDiff ==
  /\ pc = "diff"
  /\ platform = "linux"
  /\ env = <<>>
  /\ cwd = "/w/p"
  /\ fs = EmptyFs
  /\ args \in {[env1 |-> Snapshot(k, b, v1), env2 |-> Snapshot(k, c, v2), cwd |-> "/w/p",
                 prefixesToCompareRecord |-> <<>>] :
                 k \in PathKeys, b \in BaselinePaths, c \in CurrentPaths,
                 v1 \in BaselineValues, v2 \in CurrentValues}
  /\ isGlobalMode = FALSE
  /\ loadError = FALSE
  /\ npmBin = NotRun
  /\ spawned = <<>>
  /\ ret = NoRet
  /\ MainNotStarted

NextEnvDiff == EnvDiff \/ InspectEnvDiff

SpecEnvDiff == InitEnvDiff /\ [][NextEnvDiff]_vars

(***************************************************************************)
(* Claims about envDiff                                                    *)
(***************************************************************************)
DiffDone == pc \in {"diffed", "inspected"}

DiffEntries == ret.value.entries

\* the value a snapshot has for a name: a string, or undefined when the name
\* is missing or null
ValueIn(snapshot, name) ==
  IF name \in DOMAIN snapshot /\ snapshot[name].t = "string" THEN snapshot[name] ELSE JSUndefined

\* C16: a variable with the same value in the baseline and in the current
\* snapshot is absent from the result of envDiff; a variable only the current
\* snapshot has is in the result with its current value.
C16_UnchangedAbsentAddedPresent ==
  DiffDone =>
    /\ \A name \in DOMAIN args.env1 \cap DOMAIN args.env2 :
         args.env1[name] = args.env2[name] => name \notin DOMAIN DiffEntries
    /\ \A name \in DOMAIN args.env2 \ DOMAIN args.env1 :
         args.env2[name].t = "string" =>
           name \in DOMAIN DiffEntries /\ DiffEntries[name] = args.env2[name]

\* a diff in which INIT_CWD kept its value and the PATH is new
C16_Witness ==
  /\ DiffDone
  /\ "INIT_CWD" \in DOMAIN args.env1
  /\ Lookup(args.env2, "INIT_CWD") = args.env1["INIT_CWD"]
  /\ "PATH" \notin DOMAIN args.env1
  /\ DOMAIN DiffEntries = {"PATH"}
  /\ DiffEntries["PATH"] = JSString("/opt/foo/bin:/usr/bin")

\* C17: a variable is in the result of envDiff exactly when its current
\* value differs from its baseline value, a missing (or null) value on either
\* side counting as a difference: a variable of the baseline that the current
\* snapshot lacks is in the result, as removed.
C17_IncludedIffDiffers ==
  DiffDone =>
    \A name \in DOMAIN args.env1 \cup DOMAIN args.env2 :
      /\ name \in DOMAIN DiffEntries <=> ValueIn(args.env2, name) # ValueIn(args.env1, name)
      /\ name \in DOMAIN DiffEntries => DiffEntries[name] = ValueIn(args.env2, name)

\* the entries put in front of the baseline: the current value without the
\* baseline at its end and without the delimiter before it
PrependedEntries(current, baseline) ==
  LET front == Slice(current, 1, Len(current) - Len(baseline))
      bare == IF EndsWith(front, PathDelimiter(platform))
                THEN Slice(front, 1, Len(front) - 1) ELSE front
  IN Split(bare, PathDelimiter(platform))

\* C18: for a variable named PATH in any letter case whose baseline value is
\* a strict suffix of its current value, the rendered path list is the
\* prepended entries in order, followed by one placeholder that counts the
\* entries of the baseline.
C18_PrependedPathsRendered ==
  pc = "inspected" =>
    \A key \in DOMAIN ret.value.inspected :
      (/\ IsPathKey(key)
       /\ DiffEntries[key].t = "string"
       /\ Lookup(args.env1, key).t = "string"
       /\ Len(args.env1[key].v) < Len(DiffEntries[key].v)
       /\ EndsWith(DiffEntries[key].v, args.env1[key].v)) =>
        LET prepended == PrependedEntries(DiffEntries[key].v, args.env1[key].v)
            baselineCount == Len(Split(args.env1[key].v, PathDelimiter(platform)))
        IN Tail(ret.value.inspected[key].commentList) =
             [i \in 1..Len(prepended) |-> "- " \o prepended[i]]
             \o <<"... " \o ToString(baselineCount) \o " more paths">>

(***************************************************************************)
(* Claims about the validation at the end of the postinstall script        *)
(***************************************************************************)
ValidationRan == pc \in {"finish", "threw", "exited"} /\ expectedValues.t = "object"

\* DEBUG_EXPECTED_VARS_JSON carries a boolean expectedPnPEnabled that is not
\* the detected state
PnPMismatch ==
  /\ expectedValues.t = "object"
  /\ GetProperty(expectedValues, "expectedPnPEnabled").t = "boolean"
  /\ GetProperty(expectedValues, "expectedPnPEnabled").v # isPnPEnabled

FinishLogged ==
  \E i \in 1..Len(log) : log[i] = Titled(FinishLine, postinstallType(ScriptArgv, env))

\* the run met a failed bin query and nothing the validation checks
OnlyRecoverableErrors ==
  /\ binCommandResult.error
  /\ expectedValues.t = "object"
  /\ ~PnPMismatch
  /\ GetProperty(expectedValues, "expectedLocalPrefix").t # "string"

\* C19: with a boolean expectedPnPEnabled that differs from the detected
\* Plug'n'Play state the script throws, never logs 'Finish postinstall' and
\* ends with a non-zero exit code; a run that meets only recoverable errors (a
\* failed bin query, directories that cannot be listed) logs 'Finish
\* postinstall' and leaves the exit code unset.
C19_PnPMismatchAborts ==
  /\ (ValidationRan /\ PnPMismatch) =>
       /\ pc # "finish"
       /\ thrown \in {"Plug'n'Play is not enabled", "Plug'n'Play is not disabled"}
       /\ ~FinishLogged
       /\ pc = "exited" => exitCode # 0
  /\ (ValidationRan /\ OnlyRecoverableErrors) =>
       /\ pc # "threw"
       /\ thrown = ""
       /\ exitCode = 0
       /\ pc = "exited" => FinishLogged

\* a run that expected Plug'n'Play, did not detect it, and ended with exit
\* code 1 after writing its record
C19_Witness ==
  /\ pc = "exited"
  /\ PnPMismatch
  /\ ~isPnPEnabled
  /\ thrown = "Plug'n'Play is not enabled"
  /\ exitCode = 1
  /\ Len(emitted) = 1

\* getInstallationPath() was called by the validation and threw
ResolverFailed == ResolverCalled /\ ret.threw

SummaryWritten ==
  /\ written # <<>>
  /\ written[Len(written)] = [op |-> "appendFile", path |-> env["GITHUB_STEP_SUMMARY"]]

\* C20: when getInstallationPath fails during the validation the script logs
\* the error, appends it to the job summary when GITHUB_STEP_SUMMARY names
\* one, and runs to completion: nothing is thrown, 'Finish postinstall' is
\* logged and the exit code stays unset.
C20_ResolverFailureIsRecorded ==
  ResolverFailed =>
    /\ \E i \in 1..Len(log) : log[i] = ResolverErrorLine
    /\ EnvTruthy(env, "GITHUB_STEP_SUMMARY") => SummaryWritten
    /\ pc \in {"finish", "exited"}
    /\ thrown = ""
    /\ exitCode = 0
    /\ pc = "exited" => log[Len(log)] = Titled(FinishLine, postinstallType(ScriptArgv, env))

\* a run whose validation could not determine the installation directory,
\* wrote that to the job summary and finished
C20_Witness ==
  /\ pc = "exited"
  /\ ResolverFailed
  /\ EnvTruthy(env, "GITHUB_STEP_SUMMARY")
  /\ SummaryWritten
  /\ FinishLogged
  /\ exitCode = 0

(***************************************************************************)
(* Further claims about getInstallationPath                                *)
(***************************************************************************)
PathResolved == pc = "resolved"

\* <dir>/node_modules/.bin, written with the separators of the platform
BinBelow(dir) ==
  dir \o PathSep(platform) \o "node_modules" \o PathSep(platform) \o ".bin"

\* the workspace-root check of the local prefix applies and succeeds
PrefixIsCheckedWorkspaceRoot ==
  /\ ~isGlobalMode
  /\ EnvTruthy(env, "npm_config_local_prefix")
  /\ AnnouncesWorkspaces
  /\ PrefixIsWorkspaceRoot

\* how many leading segments two paths share
SharedSegments(a, b) ==
  LET as == Split(a, PathSep(platform))
      bs == Split(b, PathSep(platform))
      short == IF Len(as) < Len(bs) THEN Len(as) ELSE Len(bs)
  IN SetMax({k \in 0..short : \A i \in 1..k : as[i] = bs[i]})

\* the directory made of the leading segments two paths share
SharedDir(a, b) ==
  Join(SubSeq(Split(a, PathSep(platform)), 1, SharedSegments(a, b)), PathSep(platform))

SameSegments(a, b) == Split(a, PathSep(platform)) = Split(b, PathSep(platform))

LocalPrefixUnusable ==
  \/ ~EnvTruthy(env, "npm_config_local_prefix")
  \/ AnnouncesWorkspaces /\ PrefixIsWorkspaceRoot

\* C22: in local mode, when the local prefix is not usable and INIT_CWD is
\* set, getInstallationPath does not throw and returns the longest common
\* leading segments of the working directory and INIT_CWD followed by
\* node_modules/.bin, whether one is below the other, they are siblings, or
\* they are the same directory.
C22_CommonParentOfCwdAndInitCwd ==
  (PathResolved /\ ~isGlobalMode /\ LocalPrefixUnusable /\ EnvTruthy(env, "INIT_CWD")) =>
    ret = Returned(BinBelow(SharedDir(cwd, env["INIT_CWD"])))

\* the package manager named by the user agent is pnpm
AgentIsPnpm == usedPM(env).some /\ ToLowerCase(usedPM(env).name) = "pnpm"

CollapsedBinBelow(dir) ==
  LET first == FindFrom(dir, "node_modules", 1)
  IN IF first = 0 THEN BinBelow(dir)
     ELSE Slice(dir, 1, first - 1) \o "node_modules" \o PathSep(platform) \o ".bin"

BinQuerySucceeded == npmBin.ran /\ npmBin.code = 0 /\ npmBin.stdout # ""

\* C24: in global mode, whenever the bin query exits successfully with
\* non-empty stdout, getInstallationPath returns exactly that stdout with the
\* surrounding white space trimmed.
C24_TrimmedStdoutIsReturned ==
  (PathResolved /\ isGlobalMode /\ BinQuerySucceeded) =>
    ret = Returned(Trim(npmBin.stdout))

(***************************************************************************)
(* Claims about execBinCmd (checked under Spec).                           *)
(***************************************************************************)
\* the major version of the running package manager: the text before the
\* first dot of its version
MajorVersion ==
  LET version == usedPM(env).version
      dots == {i \in 1..Len(version) : CharAt(version, i) = "."}
  IN IF dots = {} THEN version ELSE Slice(version, 1, SetMin(dots) - 1)

\* the running package manager is yarn in a version other than 0.x and 1.x
AgentIsModernYarn ==
  usedPM(env).some /\ usedPM(env).name = "yarn" /\ MajorVersion \notin {"0", "1"}

\* the child processes started by execBinCmd
BinQuerySpawnCount == Len(spawned) - (IF npmBin.ran THEN 1 ELSE 0)

\* C25: for yarn in a version other than 0.x and 1.x execBinCmd calls back
\* with a null error and a null result and starts no child process, with and
\* without npm_execpath and on every platform.
C25_ModernYarnHasNoBinQuery ==
  (BinQueryRan /\ AgentIsModernYarn) =>
    (binCommandResult = NoResult /\ BinQuerySpawnCount = 0)

\* yarn 10 on win32 with npm_execpath set
C25_Witness ==
  /\ BinQueryRan /\ AgentIsModernYarn
  /\ MajorVersion = "10"
  /\ platform = "win32"
  /\ EnvTruthy(env, "npm_execpath")
  /\ binCommandResult.isNull
  /\ spawned = <<>>

\* the running package manager has a bin query
FamilyHasBinQuery ==
  usedPM(env).some /\ usedPM(env).name \in DOMAIN LocalArgsOf /\ ~AgentIsModernYarn

\* the arguments of the running package manager's bin query in the mode of
\* the run
ModeArgs == (IF isGlobalMode THEN GlobalArgsOf ELSE LocalArgsOf)[usedPM(env).name]

\* the path names a JavaScript file
EndsInJS(p) == EndsWith(p, ".js") \/ EndsWith(p, ".cjs") \/ EndsWith(p, ".mjs")

\* the command line that re-invokes npm_execpath with the bin query's
\* arguments
ExecpathInvocation ==
  (IF EndsInJS(env["npm_execpath"])
     THEN <<ExecPath(platform), env["npm_execpath"]>> ELSE <<env["npm_execpath"]>>)
  \o ModeArgs

\* C26: with npm_execpath set and a package manager that has a bin query,
\* execBinCmd executes npm_execpath itself, or the Node executable with
\* npm_execpath as its first argument when npm_execpath ends in .js, .cjs or
\* .mjs, followed by the package manager's arguments of the run's mode, and
\* readableCommand is the bare command name with the same arguments; without
\* npm_execpath readableCommand and executedCommand are equal.
C26_ExecpathIsExecutedNameIsReadable ==
  BinQueryRan =>
    /\ (EnvTruthy(env, "npm_execpath") /\ FamilyHasBinQuery) =>
          /\ BinQuerySpawnCount = 1
          /\ spawned[1].api = "execFile"
          /\ spawned[1].file = Head(ExecpathInvocation)
          /\ spawned[1].args = Tail(ExecpathInvocation)
          /\ binCommandResult.executedCommand =
               [command |-> Head(ExecpathInvocation), args |-> Tail(ExecpathInvocation)]
          /\ binCommandResult.readableCommand =
               [command |-> usedPM(env).name, args |-> ModeArgs]
    /\ (~EnvTruthy(env, "npm_execpath") /\ ~binCommandResult.isNull) =>
          binCommandResult.readableCommand = binCommandResult.executedCommand

\* yarn 1 in global mode on win32 with npm_execpath naming a .cjs file: Node
\* is executed with that file and `global bin`, and `yarn global bin` is
\* reported as the readable command
C26_Witness ==
  /\ BinQueryRan
  /\ platform = "win32"
  /\ isGlobalMode
  /\ EnvEquals(env, "npm_execpath", "C:\\opt\\yarn.cjs")
  /\ spawned # <<>>
  /\ spawned[1].file = "C:\\node\\node.exe"
  /\ spawned[1].args = <<"C:\\opt\\yarn.cjs", "global", "bin">>
  /\ binCommandResult.readableCommand = [command |-> "yarn", args |-> <<"global", "bin">>]

DebugPathSet ==
  EnvTruthy(env, "DEBUG_DATA_JSON_PATH") \/ EnvTruthy(env, "DEBUG_DATA_JSON_LINES_PATH")

\* the run has come to the call of validateUtils, or is past it
ValidationReached ==
  pc = "validate" \/ (pc \in {"finish", "threw", "exited"} /\ expectedValues # JSUndefined)

\* the number of writes, by this operation, to the file the variable names
WritesTo(name, op) ==
  IF ~EnvTruthy(env, name) THEN 0
  ELSE Cardinality({i \in 1..Len(written) : written[i].op = op /\ written[i].path = env[name]})

\* the number of writes to the files of the debug record
RecordFileWrites ==
  Cardinality({i \in 1..Len(written) : written[i].path \in {"data.json", "data.jsonl"}})

\* C29: in a run with DEBUG_DATA_JSON_PATH or DEBUG_DATA_JSON_LINES_PATH set
\* the debug record is written before validateUtils is called, so that a run
\* the validation aborts has still emitted exactly one record, to each file
\* that is named; a run with neither variable emits no record at any time.
C29_RecordWrittenBeforeValidation ==
  /\ (ValidationReached /\ DebugPathSet) =>
        /\ Len(emitted) = 1
        /\ WritesTo("DEBUG_DATA_JSON_PATH", "writeFile")
             = (IF EnvTruthy(env, "DEBUG_DATA_JSON_PATH") THEN 1 ELSE 0)
        /\ WritesTo("DEBUG_DATA_JSON_LINES_PATH", "appendFile")
             = (IF EnvTruthy(env, "DEBUG_DATA_JSON_LINES_PATH") THEN 1 ELSE 0)
        /\ RecordFileWrites = WritesTo("DEBUG_DATA_JSON_PATH", "writeFile")
                                + WritesTo("DEBUG_DATA_JSON_LINES_PATH", "appendFile")
  /\ ~DebugPathSet => (emitted = <<>> /\ RecordFileWrites = 0)

\* a run with both variables set that the Plug'n'Play check aborted: one
\* record was emitted and written to both files
C29_Witness ==
  /\ pc = "exited"
  /\ exitCode = 1
  /\ PnPMismatch
  /\ EnvTruthy(env, "DEBUG_DATA_JSON_PATH") /\ EnvTruthy(env, "DEBUG_DATA_JSON_LINES_PATH")
  /\ Len(emitted) = 1
  /\ written = <<[op |-> "writeFile", path |-> "data.json"],
                 [op |-> "appendFile", path |-> "data.jsonl"]>>

(***************************************************************************)
(* The JSON-lines file of an install case: the orchestrator empties it,    *)
(* every postinstall run appends its record, the orchestrator reads it     *)
(* back with parseJsonLines.                                               *)
(***************************************************************************)
\* most postinstall runs of one install case
MaxRuns == 3

\* /[^ \t\n\r]/.test(jsonText) is false
IsBlankLine(jsonText) ==
  \A i \in 1..Len(jsonText) : CharAt(jsonText, i) \in {" ", "\t", "\n", "\r"}

\* parseJsonLines reading every line, the blank ones included
parseJsonLines_NoSkip(jsonLinesText) ==
  LET lines == Split(jsonLinesText, "\n")
      parsed == [k \in 1..Len(lines) |-> JSON_parse(lines[k])]
  IN IF \E k \in 1..Len(parsed) : parsed[k].threw
       THEN Threw
       ELSE Returned([k \in 1..Len(parsed) |-> parsed[k].value])

\* parseJsonLines(jsonLinesText): the values of the lines that are not blank,
\* or the SyntaxError of the first line that is not JSON
parseJsonLines(jsonLinesText) ==
  LET lines == Split(jsonLinesText, "\n")
      kept == SortedSeq({i \in 1..Len(lines) : ~IsBlankLine(lines[i])})
      parsed == [k \in 1..Len(kept) |-> JSON_parse(lines[kept[k]])]
  IN IF \E k \in 1..Len(parsed) : parsed[k].threw
       THEN Threw
       ELSE Returned([k \in 1..Len(parsed) |-> parsed[k].value])

\* the value handed to JSON.stringify by a postinstall run
LineRecord(type, name, dir, result, found) ==
  JSObject(<<"postinstallType", "binName", "actual">>,
           <<type, name,
             JSObject(<<"cwd", "isGlobalMode", "binCommandResult", "foundBinFiles">>,
                      <<JSString(dir), JSBool(FALSE), result, found>>)>>)

\* binCommandResult as the record carries it
LineResult(error, stdout, stderr) ==
  JSObject(<<"error", "stdout", "stderr">>, <<error, JSString(stdout), JSString(stderr)>>)

\* records of runs: without a bin name and a bin query; on win32 with a bin
\* directory printed; with a failed bin query whose message quotes a word;
\* with an empty list of found files
SampleRecords ==
  { LineRecord(JSNull, JSNull, "/w/p", JSNull, JSNull),
    LineRecord(JSString("Local (a)"), JSString("foo"), "C:\\w\\p",
               LineResult(JSNull, "C:\\w\\p\\node_modules\\.bin\n", ""),
               JSArray(<<JSString("C:\\w\\p\\node_modules\\.bin\\foo.cmd")>>)),
    LineRecord(JSString("Local (a)"), JSString("foo"), "/w/p",
               LineResult(JSString("Error: Command failed"), "", "Unknown command: \"bin\"\n\n"),
               JSArray(<<JSString("/w/p/node_modules/.bin/foo")>>)),
    LineRecord(JSNull, JSString("foo"), "/w/p", LineResult(JSNull, " \n", ""), JSArray(<<>>)) }

\* what the file may hold from an earlier install case
StaleTexts == {"", "\n{\"postinstallType\":null}\n", "{oops"}

LinesFile(text) == [files |-> [f \in {"data.jsonl"} |-> text], dirs |-> <<>>]

\* await fs.writeFile(localInstallEnv.DEBUG_DATA_JSON_LINES_PATH, new Uint8Array(0))
Orchestrator_Truncate ==
  /\ pc = "case_setup"
  /\ fs' = LinesFile("")
  /\ written' = Append(written, [op |-> "writeFile", path |-> args.DEBUG_DATA_JSON_LINES_PATH])
  /\ pc' = "case_install"
  /\ UNCHANGED <<env, platform, cwd, isGlobalMode, loadError, npmBin, spawned, args, ret,
                 isPnPEnabled, binName, binCommandResult, expectedValues, emitted, log, thrown,
                 exitCode, callbacks, watch>>

\* a postinstall run of the install:
\* await appendFile(DEBUG_DATA_JSON_LINES_PATH, `\n${jsonStr}\n`)
Postinstall_Append ==
  /\ pc = "case_install"
  /\ Len(emitted) < MaxRuns
  /\ \E output \in SampleRecords :
       /\ emitted' = Append(emitted, output)
       /\ fs' = LinesFile(fs.files[args.DEBUG_DATA_JSON_LINES_PATH]
                            \o "\n" \o JSON_stringify(output) \o "\n")
  /\ written' = Append(written, [op |-> "appendFile", path |-> args.DEBUG_DATA_JSON_LINES_PATH])
  /\ UNCHANGED <<pc, env, platform, cwd, isGlobalMode, loadError, npmBin, spawned, args, ret,
                 isPnPEnabled, binName, binCommandResult, expectedValues, log, thrown,
                 exitCode, callbacks, watch>>

\* fs.readFile(localInstallEnv.DEBUG_DATA_JSON_LINES_PATH, 'utf8').then(parseJsonLines);
\* ret is the outcome of parseJsonLines, before the caller's catch turns a
\* failure into an empty list
Orchestrator_ReadLines ==
  /\ pc = "case_install"
  /\ ret' = parseJsonLines(fs.files[args.DEBUG_DATA_JSON_LINES_PATH])
  /\ pc' = "case_read"
  /\ UNCHANGED <<env, platform, cwd, isGlobalMode, loadError, fs, npmBin, spawned, args,
                 mainVars, watch>>

\* an install case is about to be set up; the file may be left over from the
\* case before
InitLines ==
  /\ pc = "case_setup"
  /\ platform = "linux"
  /\ env = <<>>
  /\ cwd = "/w/p"
  /\ \E text \in StaleTexts : fs = LinesFile(text)
  /\ args = [DEBUG_DATA_JSON_LINES_PATH |-> "data.jsonl"]
  /\ isGlobalMode = FALSE
  /\ loadError = FALSE
  /\ npmBin = NotRun
  /\ spawned = <<>>
  /\ ret = NoRet
  /\ MainNotStarted

NextLines == Orchestrator_Truncate \/ Postinstall_Append \/ Orchestrator_ReadLines

SpecLines == InitLines /\ [][NextLines]_vars

(***************************************************************************)
(* Claims about the JSON-lines file (checked under SpecLines).             *)
(***************************************************************************)
\* the lines of the file
FileLines == Split(fs.files["data.jsonl"], "\n")

\* C30: after the orchestrator has emptied the file for an install case and
\* any number of postinstall runs have appended to it, parseJsonLines returns
\* exactly one value per run, equal to the record that run serialized, in the
\* order of the appends; the blank lines between the records give no value.
C30_OneValuePerRunInOrder ==
  pc = "case_read" =>
    /\ ~ret.threw
    /\ Len(ret.value) = Len(emitted)
    /\ \A i \in 1..Len(emitted) : ret.value[i] = emitted[i]
    /\ Len(FileLines) = 2 * Len(emitted) + 1

\* two runs appended different records, the first of which carries line
\* breaks, quotes and backslashes in its strings, to a file that was emptied
C30_Witness ==
  /\ pc = "case_read"
  /\ Len(emitted) >= 2
  /\ emitted[1] # emitted[2]
  /\ GetProperty(GetProperty(GetProperty(emitted[1], "actual"), "binCommandResult"), "stderr")
       = JSString("Unknown command: \"bin\"\n\n")
  /\ GetProperty(GetProperty(emitted[2], "actual"), "cwd") = JSString("C:\\w\\p")
  /\ ret = Returned(emitted)
  /\ Len(FileLines) > Len(ret.value)

====
